---- MODULE Spec2Model ----
(***************************************************************************)
(* Model of the insurgent build core:                                      *)
(*   - the Task Graph Scheduler, insurgent/Build/ParallelBuildManager.py   *)
(*     and insurgent/Build/BuildTask.py;                                   *)
(*   - the Compilation Pipeline, insurgent/Build/BuildEngine.py.           *)
(* The scheduler is modelled statement by statement: the coordinating      *)
(* thread reads and writes the status sets without the lock, so every      *)
(* statement of a worker is a step of its own.                             *)
(* The pipeline is modelled from one await to the next: SchedSpec runs the *)
(* scheduler, EngineSpec the incremental builds of one project whose       *)
(* sources, flags and objects change between builds, ProjectSpec the       *)
(* builds and cleans of a project on every descriptor and cache file.      *)
(***************************************************************************)
EXTENDS Integers, Sequences, FiniteSets, TLC

\* ---------------------------------------------------------------- bounds
MaxWorkers == 2
MaxTargets == 2
MaxCalls == 2
MaxHistory == 3
MaxAspects == 2
MaxDirs == 2

\* ------------------------------------------------------- scheduler: state
VARIABLES
    dependencies,     \* project.get_target_dependencies: target -> list
    targets,          \* the list handed to build()
    max_workers,      \* self.max_workers
    tasks,            \* keys of self.tasks
    task_started,     \* BuildTask.start_time is not None
    task_completed,   \* BuildTask.completed
    task_failed,      \* BuildTask.failed
    invoked,          \* number of calls of the target's action
    queue,            \* self.queue
    pending_tasks, running_tasks, completed_tasks, failed_tasks,
    running,          \* self.running, the stop flag
    lock,             \* holder of self.lock
    wpc, wtarget,     \* position and local `target` of each worker thread
    mpc,              \* position of the thread that called build()
    mscan,            \* targets of list(self.pending_tasks) still to visit
    blocked,          \* local `blocked` of build()
    result,           \* value returned by build()
    calls             \* number of calls of build() on this manager

svars == <<dependencies, targets, max_workers, tasks, task_started,
           task_completed, task_failed, invoked, queue, pending_tasks,
           running_tasks, completed_tasks, failed_tasks, running, lock,
           wpc, wtarget, mpc, mscan, blocked, result, calls>>


\* ------------------------------------------ compilation pipeline: state
VARIABLES
    content,          \* bytes of each source file on disk
    obj_exists,       \* os.path.exists(obj_file) for each source file
    config_flags,     \* compiler_flags in self.config
    file_hashes,      \* self.build_cache["file_hashes"]
    disk_hashes,      \* file_hashes in obj/cache.json
    epc,              \* position of _build_with_options
    incremental, multi_threaded,     \* arguments of the build in hand
    files_to_compile, \* local list of _build_with_options
    ctask,            \* state of the compile invocation of each file
    artifact,         \* state of the link or archive invocation
    eresult,          \* value returned by the build
    seen,             \* content of each file at its last change check,
                      \* None once clean has emptied the cache
    last_check,       \* checks of the build in hand:
                      \* <<value returned, content changed since `seen`>>
    last_build,       \* latest build, if incremental: result, flags, and
                      \* whether sources, flags or objects were touched since
    follows,          \* how the build in hand follows the one before it
    subprojects,      \* each directory: declared in config["subprojects"]
                      \* or not, and present on disk or not
    subproject_engines,  \* self.subproject_engines (their names)
    bootstrap,        \* config["bootstrap"]
    has_sources,      \* the project directories hold source files
    project_type,     \* config["project_type"], a mandatory key
    jobs,             \* self.jobs
    type_key,         \* config["type"], an optional key
    cache_form,       \* what self.build_cache is: a cache record, or
                      \* another value that json.load returned
    cache_meta,       \* last_build_time, compiler_flags, output_file of
                      \* self.build_cache
    disk_form,        \* what obj/cache.json holds
    disk_meta,        \* the same three fields in obj/cache.json
    output_exists,    \* os.path.exists(output_file)
    build_subprojects,   \* argument of the build in hand
    sub_state,        \* the build of each subproject engine in this call
    tool,             \* the invocation made by the artifact step
    saved,            \* _save_build_cache was called by the build in hand
    failure,          \* where the build in hand returned False
    ran,              \* the shell commands started by _run_bootstrap in
                      \* the build in hand
    compile_failed,   \* the latest compile invocation of each file, made
                      \* by this engine since the build directory was
                      \* last removed, failed
    cleaned           \* whether clean has returned success since the latest
                      \* build, and the fingerprints it found in the cache

\* the descriptor and the project tree, fixed once the engine is made
dvars == <<subprojects, subproject_engines, bootstrap, has_sources,
           project_type, type_key, jobs>>

\* the cache record apart from its fingerprints, in memory and on disk
cvars == <<cache_form, cache_meta, disk_form, disk_meta>>

\* the bookkeeping of the call in hand
bvars == <<build_subprojects, sub_state, tool, saved, failure>>

\* the record of the invocations made
gvars == <<ran, compile_failed, cleaned>>

evars == <<content, obj_exists, config_flags, file_hashes, disk_hashes,
           epc, incremental, multi_threaded, files_to_compile, ctask,
           artifact, eresult, seen, last_check, last_build, follows,
           dvars, cvars, output_exists, bvars, gvars>>

\* ------------------------------------- shell history, descriptor: state
VARIABLES
    command_history,  \* the list command_history of Shell/shell.py
    history_file,     \* the history file: whether it exists, and its text
    last_saved,       \* the history that save_history wrote last
    restored,         \* load_history has just filled an empty history
                      \* from the file that save_history wrote last
    config_file,      \* project.yaml, as load_config finds it
    loaded,           \* outcome of the latest call of load_config
    valid             \* value returned by validate_config on `loaded`

hvars == <<command_history, history_file, last_saved, restored,
           config_file, loaded, valid>>

\* ----------------------------------------------- source discovery: state
VARIABLES
    project_dirs,     \* config["project_dirs"]
    ignore_patterns,  \* config["ignore"]
    source_files,     \* local list of _build_with_options, as
                      \* _find_source_files returned it
    compile_tasks,    \* the compile invocations of the build in hand:
                      \* source file, object file, and how far each is
    dpc               \* position of the build that discovers its sources

pvars == <<project_dirs, ignore_patterns, source_files, compile_tasks, dpc>>

fvars == <<hvars, pvars>>

vars == <<svars, evars, fvars>>

Targets == {"A", "B", "C"}
Workers == 1..(MaxCalls * MaxWorkers)
None == "None"
Free == 0

\* a dependency graph, from the list of dependencies of B and of C
\* (A, the first target, depends on nothing: the graphs are acyclic)
Graph(b, c) == [t \in Targets |-> IF t = "B" THEN b ELSE IF t = "C" THEN c ELSE <<>>]

Graphs ==
    { Graph(<<>>, <<>>),               \* three independent targets
      Graph(<<"A">>, <<"B">>),         \* chain C -> B -> A
      Graph(<<"A">>, <<"A">>),         \* B and C both depend on A
      Graph(<<>>, <<"A", "B">>),       \* C depends on A and B
      Graph(<<"A">>, <<"B", "A">>) }   \* C depends on A directly and through B

\* a dependency graph from the lists of dependencies of A, B and C
DependencyGraph(a, b, c) ==
    [t \in Targets |-> IF t = "A" THEN a ELSE IF t = "B" THEN b ELSE c]

\* graphs that are not acyclic
CyclicGraphs ==
    { DependencyGraph(<<"A">>, <<>>, <<>>),          \* A depends on itself
      DependencyGraph(<<"B">>, <<"A">>, <<>>),       \* A -> B -> A
      DependencyGraph(<<"B">>, <<"C">>, <<"A">>),    \* A -> B -> C -> A
      DependencyGraph(<<"B">>, <<"B", "A">>, <<"B">>) }  \* both, below C

TargetLists ==
    UNION {[1..n -> Targets] : n \in 1..MaxTargets}

SeqToSet(s) == {s[i] : i \in DOMAIN s}

\* dependency closure of a set of targets
RECURSIVE Closure(_)
Closure(S) ==
    LET S2 == S \cup UNION {SeqToSet(dependencies[t]) : t \in S}
    IN IF S2 = S THEN S ELSE Closure(S2)

\* targets that depend on b, directly or transitively
Dependents(b) == {t \in Targets \ {b} : b \in Closure({t})}

\* ------------------------------------------------- _process_dependencies
RECURSIVE ProcessDependencies(_, _), ProcessDepList(_, _, _)

\* a resolution that takes a dependency already pending or running for
\* unresolved
ProcessDepListStrict(st, ds, unresolved) ==
    IF ds = <<>> THEN [st |-> st, unresolved |-> unresolved]
    ELSE LET dep == Head(ds) IN
         IF dep \in st.completed THEN
             ProcessDepList(st, Tail(ds), unresolved)
         ELSE IF dep \in st.failed THEN
             ProcessDepList(st, Tail(ds), Append(unresolved, dep))
         ELSE IF dep \notin st.pending /\ dep \notin st.running THEN
             LET r  == ProcessDependencies(
                           [st EXCEPT !.pending = @ \cup {dep}], dep)
                 s2 == IF r.unresolved = <<>>
                       THEN [r.st EXCEPT !.queue = Append(@, dep)]
                       ELSE r.st
                 u2 == IF r.unresolved = <<>>
                       THEN unresolved
                       ELSE unresolved \o r.unresolved
             IN ProcessDepList(s2, Tail(ds), u2)
         ELSE ProcessDepList(st, Tail(ds), Append(unresolved, dep))

ProcessDepList(st, ds, unresolved) ==
    IF ds = <<>> THEN [st |-> st, unresolved |-> unresolved]
    ELSE LET dep == Head(ds) IN
         IF dep \in st.completed THEN
             ProcessDepList(st, Tail(ds), unresolved)
         ELSE IF dep \in st.failed THEN
             ProcessDepList(st, Tail(ds), Append(unresolved, dep))
         ELSE IF dep \notin st.pending /\ dep \notin st.running THEN
             LET r  == ProcessDependencies(
                           [st EXCEPT !.pending = @ \cup {dep}], dep)
                 s2 == IF r.unresolved = <<>>
                       THEN [r.st EXCEPT !.queue = Append(@, dep)]
                       ELSE r.st
                 u2 == IF r.unresolved = <<>>
                       THEN unresolved
                       ELSE unresolved \o r.unresolved
             IN ProcessDepList(s2, Tail(ds), u2)
         ELSE ProcessDepList(st, Tail(ds), unresolved)

ProcessDependencies(st, target) ==
    ProcessDepList([st EXCEPT !.tasks = @ \cup {target}],
                   dependencies[target], <<>>)

\* the loop `for target in targets` of build()
RECURSIVE ProcessTargets(_, _)
ProcessTargets(st, ts) ==
    IF ts = <<>> THEN st
    ELSE LET r  == ProcessDependencies(
                       [st EXCEPT !.pending = @ \cup {Head(ts)}], Head(ts))
             s2 == IF r.unresolved = <<>>
                   THEN [r.st EXCEPT !.queue = Append(@, Head(ts))]
                   ELSE r.st
         IN ProcessTargets(s2, Tail(ts))

\* the larger of two numbers
Max(a, b) == IF a >= b THEN a ELSE b

\* the max_workers argument of the constructor: left out, or a number
ConstructorArguments ==
    {[given |-> FALSE, value |-> 0]} \cup
    {[given |-> TRUE, value |-> v] : v \in (0 - 1)..MaxWorkers}

\* multiprocessing.cpu_count(), on machines of up to MaxWorkers processors
CpuCounts == 1..MaxWorkers

\* self.max_workers as __init__ sets it
MaxWorkersOf(arg, cpus) ==
    IF ~arg.given THEN cpus ELSE Max(1, arg.value)

ClearedState ==
    [tasks |-> {}, pending |-> {}, completed |-> {}, failed |-> {},
     running |-> {}, queue |-> <<>>]

\* -------------------------------------------------------------- __init__
\* ParallelBuildManager.__init__ for a project with dependency graph g,
\* before build(ts) is called
ManagerConstructed(g, ts, n) ==
    /\ dependencies = g
    /\ targets = ts
    /\ max_workers = n
    /\ tasks = {}
    /\ task_started = [t \in Targets |-> FALSE]
    /\ task_completed = [t \in Targets |-> FALSE]
    /\ task_failed = [t \in Targets |-> FALSE]
    /\ invoked = [t \in Targets |-> 0]
    /\ queue = <<>>
    /\ pending_tasks = {} /\ running_tasks = {}
    /\ completed_tasks = {} /\ failed_tasks = {}
    /\ running = FALSE
    /\ lock = Free
    /\ wpc = [w \in Workers |-> "none"]
    /\ wtarget = [w \in Workers |-> None]
    /\ mpc = "idle"
    /\ mscan = {}
    /\ blocked = FALSE
    /\ result = None
    /\ calls = 0

\* ----------------------------------------------------------------- build
\* the worker threads that have been started and have not ended
Alive == {w \in Workers : wpc[w] \notin {"none", "exit"}}

\* the threads started by the call of build() that follows `made` calls
NewThreads(made) ==
    {made * MaxWorkers + i : i \in 1..max_workers}

\* build(): clear the state, resolve the targets, start the workers
BuildStart ==
    /\ mpc = "idle"
    /\ LET st == ProcessTargets(ClearedState, targets) IN
         /\ tasks' = st.tasks
         /\ pending_tasks' = st.pending
         /\ completed_tasks' = st.completed
         /\ failed_tasks' = st.failed
         /\ running_tasks' = st.running
         /\ queue' = st.queue
    /\ running' = TRUE
    /\ wpc' = [w \in Workers |->
                 IF w \in NewThreads(calls) THEN "loop" ELSE "none"]
    /\ mpc' = "cond_running"
    /\ calls' = calls + 1
    /\ UNCHANGED <<dependencies, targets, max_workers, task_started,
                   task_completed, task_failed, invoked, lock, wtarget,
                   mscan, blocked, result>>
    /\ UNCHANGED <<evars, fvars>>

\* a later call build(ts) on the same manager, after the call before it
\* has returned: the state is cleared, the targets are resolved and
\* max_workers new threads are started, next to the threads of the
\* earlier call that have not ended. A thread of the earlier call keeps
\* the task object of its target, which is not in self.tasks any more;
\* the model follows the later calls whose targets are not held by such
\* a thread, so that a target names one task object
BuildAgain(ts) ==
    /\ mpc = "returned"
    /\ calls < MaxCalls
    /\ \A w \in Alive : wtarget[w] \notin Closure(SeqToSet(ts))
    /\ LET st == ProcessTargets(ClearedState, ts) IN
         /\ tasks' = st.tasks
         /\ pending_tasks' = st.pending
         /\ completed_tasks' = st.completed
         /\ failed_tasks' = st.failed
         /\ running_tasks' = st.running
         /\ queue' = st.queue
         /\ task_started' = [t \in Targets |->
                                IF t \in st.tasks THEN FALSE
                                ELSE task_started[t]]
         /\ task_completed' = [t \in Targets |->
                                  IF t \in st.tasks THEN FALSE
                                  ELSE task_completed[t]]
         /\ task_failed' = [t \in Targets |->
                               IF t \in st.tasks THEN FALSE
                               ELSE task_failed[t]]
         /\ invoked' = [t \in Targets |->
                           IF t \in st.tasks THEN 0 ELSE invoked[t]]
    /\ targets' = ts
    /\ running' = TRUE
    /\ wpc' = [w \in Workers |->
                 IF w \in NewThreads(calls) THEN "loop" ELSE wpc[w]]
    /\ mpc' = "cond_running"
    /\ mscan' = {}
    /\ blocked' = FALSE
    /\ result' = None
    /\ calls' = calls + 1
    /\ UNCHANGED <<dependencies, max_workers, lock, wtarget>>
    /\ UNCHANGED <<evars, fvars>>

\* while self.running and (len(self.running_tasks) > 0 or ...
WaitCondRunning ==
    /\ mpc = "cond_running"
    /\ mpc' = IF ~running THEN "finally"
              ELSE IF running_tasks # {} THEN "wait" ELSE "cond_pending"
    /\ UNCHANGED <<dependencies, targets, max_workers, tasks, task_started,
                   task_completed, task_failed, invoked, queue,
                   pending_tasks, running_tasks, completed_tasks,
                   failed_tasks, running, lock, wpc, wtarget, mscan,
                   blocked, result>>
    /\ UNCHANGED <<calls, evars, fvars>>

\* ... or len(self.pending_tasks) > 0)
WaitCondPending ==
    /\ mpc = "cond_pending"
    /\ mpc' = IF pending_tasks # {} THEN "wait" ELSE "finally"
    /\ UNCHANGED <<dependencies, targets, max_workers, tasks, task_started,
                   task_completed, task_failed, invoked, queue,
                   pending_tasks, running_tasks, completed_tasks,
                   failed_tasks, running, lock, wpc, wtarget, mscan,
                   blocked, result>>
    /\ UNCHANGED <<calls, evars, fvars>>

\* with self.condition: self.condition.wait(0.1), then the test that
\* opens the scan for blocked targets
ConditionWait ==
    /\ mpc = "wait"
    /\ lock = Free
    /\ IF failed_tasks # {} /\ pending_tasks # {}
       THEN /\ mscan' = pending_tasks
            /\ mpc' = "scan"
       ELSE /\ mscan' = {}
            /\ mpc' = "cond_running"
    /\ blocked' = FALSE
    /\ UNCHANGED <<dependencies, targets, max_workers, tasks, task_started,
                   task_completed, task_failed, invoked, queue,
                   pending_tasks, running_tasks, completed_tasks,
                   failed_tasks, running, lock, wpc, wtarget, result>>
    /\ UNCHANGED <<calls, evars, fvars>>

\* does the scan find a failed dependency of target t
HasFailedDep(t) ==
    t \in tasks /\ \E d \in SeqToSet(dependencies[t]) : d \in failed_tasks

\* one iteration of `for target in list(self.pending_tasks)`
ScanTarget(t) ==
    /\ mpc = "scan"
    /\ t \in mscan
    /\ mscan' = mscan \ {t}
    /\ IF HasFailedDep(t)
       THEN /\ blocked' = TRUE
            /\ pending_tasks' = pending_tasks \ {t}
            /\ failed_tasks' = failed_tasks \cup {t}
       ELSE UNCHANGED <<blocked, pending_tasks, failed_tasks>>
    /\ UNCHANGED <<dependencies, targets, max_workers, tasks, task_started,
                   task_completed, task_failed, invoked, queue,
                   running_tasks, completed_tasks, running, lock, wpc,
                   wtarget, mpc, result>>
    /\ UNCHANGED <<calls, evars, fvars>>

\* end of the scan: `if blocked: with self.condition: notify_all()`
ScanEnd ==
    /\ mpc = "scan"
    /\ mscan = {}
    /\ blocked => lock = Free
    /\ mpc' = "cond_running"
    /\ UNCHANGED <<dependencies, targets, max_workers, tasks, task_started,
                   task_completed, task_failed, invoked, queue,
                   pending_tasks, running_tasks, completed_tasks,
                   failed_tasks, running, lock, wpc, wtarget, mscan,
                   blocked, result>>
    /\ UNCHANGED <<calls, evars, fvars>>

\* finally: self.running = False
StopWorkers ==
    /\ mpc = "finally"
    /\ running' = FALSE
    /\ mpc' = "join"
    /\ UNCHANGED <<dependencies, targets, max_workers, tasks, task_started,
                   task_completed, task_failed, invoked, queue,
                   pending_tasks, running_tasks, completed_tasks,
                   failed_tasks, lock, wpc, wtarget, mscan, blocked, result>>
    /\ UNCHANGED <<calls, evars, fvars>>

\* thread.join(0.1) for every worker: returns when the worker has ended or
\* when the timeout has passed, whichever comes first
JoinWorkers ==
    /\ mpc = "join"
    /\ mpc' = "return"
    /\ UNCHANGED <<dependencies, targets, max_workers, tasks, task_started,
                   task_completed, task_failed, invoked, queue,
                   pending_tasks, running_tasks, completed_tasks,
                   failed_tasks, running, lock, wpc, wtarget, mscan,
                   blocked, result>>
    /\ UNCHANGED <<calls, evars, fvars>>

\* return len(self.failed_tasks) == 0
BuildReturn ==
    /\ mpc = "return"
    /\ result' = (failed_tasks = {})
    /\ mpc' = "returned"
    /\ UNCHANGED <<dependencies, targets, max_workers, tasks, task_started,
                   task_completed, task_failed, invoked, queue,
                   pending_tasks, running_tasks, completed_tasks,
                   failed_tasks, running, lock, wpc, wtarget, mscan, blocked>>
    /\ UNCHANGED <<calls, evars, fvars>>

\* --------------------------------------------------------------- _worker
\* while self.running:
WorkerLoop(w) ==
    /\ wpc[w] = "loop"
    /\ wpc' = [wpc EXCEPT ![w] = IF running THEN "get" ELSE "exit"]
    /\ UNCHANGED <<dependencies, targets, max_workers, tasks, task_started,
                   task_completed, task_failed, invoked, queue,
                   pending_tasks, running_tasks, completed_tasks,
                   failed_tasks, running, lock, wtarget, mpc, mscan,
                   blocked, result>>
    /\ UNCHANGED <<calls, evars, fvars>>

\* target = self.queue.get(timeout=0.1)
WorkerGet(w) ==
    /\ wpc[w] = "get"
    /\ queue # <<>>
    /\ wtarget' = [wtarget EXCEPT ![w] = Head(queue)]
    /\ queue' = Tail(queue)
    /\ wpc' = [wpc EXCEPT ![w] = "check"]
    /\ UNCHANGED <<dependencies, targets, max_workers, tasks, task_started,
                   task_completed, task_failed, invoked, pending_tasks,
                   running_tasks, completed_tasks, failed_tasks, running,
                   lock, mpc, mscan, blocked, result>>
    /\ UNCHANGED <<calls, evars, fvars>>

\* the get times out: except Empty, first half of the exit test
\* (not self.running, len(self.pending_tasks) == 0)
WorkerGetEmpty(w) ==
    /\ wpc[w] = "get"
    /\ queue = <<>>
    /\ wpc' = [wpc EXCEPT ![w] =
                 IF ~running THEN "exit"
                 ELSE IF pending_tasks = {} THEN "empty_running"
                 ELSE "loop"]
    /\ UNCHANGED <<dependencies, targets, max_workers, tasks, task_started,
                   task_completed, task_failed, invoked, queue,
                   pending_tasks, running_tasks, completed_tasks,
                   failed_tasks, running, lock, wtarget, mpc, mscan,
                   blocked, result>>
    /\ UNCHANGED <<calls, evars, fvars>>

\* second half of the exit test: len(self.running_tasks) == 0
WorkerEmptyRunning(w) ==
    /\ wpc[w] = "empty_running"
    /\ wpc' = [wpc EXCEPT ![w] =
                 IF running_tasks = {} THEN "exit" ELSE "loop"]
    /\ UNCHANGED <<dependencies, targets, max_workers, tasks, task_started,
                   task_completed, task_failed, invoked, queue,
                   pending_tasks, running_tasks, completed_tasks,
                   failed_tasks, running, lock, wtarget, mpc, mscan,
                   blocked, result>>
    /\ UNCHANGED <<calls, evars, fvars>>

\* was the target taken from the queue already processed
AlreadyProcessed(t) == t \in completed_tasks \/ t \in failed_tasks

\* if target in self.completed_tasks or target in self.failed_tasks:
\*     continue; otherwise fetch or create the task object
WorkerCheck(w) ==
    /\ wpc[w] = "check"
    /\ IF AlreadyProcessed(wtarget[w])
       THEN /\ wpc' = [wpc EXCEPT ![w] = "loop"]
            /\ wtarget' = [wtarget EXCEPT ![w] = None]
            /\ tasks' = tasks
       ELSE /\ wpc' = [wpc EXCEPT ![w] = "lock_start"]
            /\ tasks' = tasks \cup {wtarget[w]}
            /\ wtarget' = wtarget
    /\ UNCHANGED <<dependencies, targets, max_workers, task_started,
                   task_completed, task_failed, invoked, queue,
                   pending_tasks, running_tasks, completed_tasks,
                   failed_tasks, running, lock, mpc, mscan, blocked, result>>
    /\ UNCHANGED <<calls, evars, fvars>>

\* with self.lock: self.pending_tasks.discard(target)
WorkerDiscardPending(w) ==
    /\ wpc[w] = "lock_start"
    /\ lock = Free
    /\ lock' = w
    /\ pending_tasks' = pending_tasks \ {wtarget[w]}
    /\ wpc' = [wpc EXCEPT ![w] = "add_running"]
    /\ UNCHANGED <<dependencies, targets, max_workers, tasks, task_started,
                   task_completed, task_failed, invoked, queue,
                   running_tasks, completed_tasks, failed_tasks, running,
                   wtarget, mpc, mscan, blocked, result>>
    /\ UNCHANGED <<calls, evars, fvars>>

\* self.running_tasks.add(target), end of the with block
WorkerAddRunning(w) ==
    /\ wpc[w] = "add_running"
    /\ running_tasks' = running_tasks \cup {wtarget[w]}
    /\ lock' = Free
    /\ wpc' = [wpc EXCEPT ![w] = "execute"]
    /\ UNCHANGED <<dependencies, targets, max_workers, tasks, task_started,
                   task_completed, task_failed, invoked, queue,
                   pending_tasks, completed_tasks, failed_tasks, running,
                   wtarget, mpc, mscan, blocked, result>>
    /\ UNCHANGED <<calls, evars, fvars>>

\* task.execute(): start_time is set and the action is called
ExecuteStart(w) ==
    /\ wpc[w] = "execute"
    /\ task_started' = [task_started EXCEPT ![wtarget[w]] = TRUE]
    /\ invoked' = [invoked EXCEPT ![wtarget[w]] = @ + 1]
    /\ wpc' = [wpc EXCEPT ![w] = "action"]
    /\ UNCHANGED <<dependencies, targets, max_workers, tasks,
                   task_completed, task_failed, queue, pending_tasks,
                   running_tasks, completed_tasks, failed_tasks, running,
                   lock, wtarget, mpc, mscan, blocked, result>>
    /\ UNCHANGED <<calls, evars, fvars>>

\* the action returns (ok) or raises (not ok)
ExecuteEnd(w, ok) ==
    /\ wpc[w] = "action"
    /\ IF ok
       THEN /\ task_completed' = [task_completed EXCEPT ![wtarget[w]] = TRUE]
            /\ task_failed' = task_failed
       ELSE /\ task_failed' = [task_failed EXCEPT ![wtarget[w]] = TRUE]
            /\ task_completed' = task_completed
    /\ wpc' = [wpc EXCEPT ![w] = "lock_end"]
    /\ UNCHANGED <<dependencies, targets, max_workers, tasks, task_started,
                   invoked, queue, pending_tasks, running_tasks,
                   completed_tasks, failed_tasks, running, lock, wtarget,
                   mpc, mscan, blocked, result>>
    /\ UNCHANGED <<calls, evars, fvars>>

\* with self.lock: self.running_tasks.discard(target)
WorkerDiscardRunning(w) ==
    /\ wpc[w] = "lock_end"
    /\ lock = Free
    /\ lock' = w
    /\ running_tasks' = running_tasks \ {wtarget[w]}
    /\ wpc' = [wpc EXCEPT ![w] = "record"]
    /\ UNCHANGED <<dependencies, targets, max_workers, tasks, task_started,
                   task_completed, task_failed, invoked, queue,
                   pending_tasks, completed_tasks, failed_tasks, running,
                   wtarget, mpc, mscan, blocked, result>>
    /\ UNCHANGED <<calls, evars, fvars>>

\* if task.failed: self.failed_tasks.add(target)
\* else: self.completed_tasks.add(target); end of the with block.
\* The statements up to the end of the loop body (self.results.put,
\* notify_all under the condition, self.queue.task_done) change nothing
\* that is read again, and the worker is back at the loop test.
WorkerRecord(w) ==
    /\ wpc[w] = "record"
    /\ IF task_failed[wtarget[w]]
       THEN /\ failed_tasks' = failed_tasks \cup {wtarget[w]}
            /\ completed_tasks' = completed_tasks
       ELSE /\ completed_tasks' = completed_tasks \cup {wtarget[w]}
            /\ failed_tasks' = failed_tasks
    /\ lock' = Free
    /\ wpc' = [wpc EXCEPT ![w] = "loop"]
    /\ wtarget' = [wtarget EXCEPT ![w] = None]
    /\ UNCHANGED <<dependencies, targets, max_workers, tasks, task_started,
                   task_completed, task_failed, invoked, queue,
                   pending_tasks, running_tasks, running, mpc,
                   mscan, blocked, result>>
    /\ UNCHANGED <<calls, evars, fvars>>

SchedNext ==
    \/ BuildStart
    \/ WaitCondRunning
    \/ WaitCondPending
    \/ ConditionWait
    \/ \E t \in Targets : ScanTarget(t)
    \/ ScanEnd
    \/ StopWorkers
    \/ JoinWorkers
    \/ BuildReturn
    \/ \E w \in Workers : WorkerLoop(w)
    \/ \E w \in Workers : WorkerGet(w)
    \/ \E w \in Workers : WorkerGetEmpty(w)
    \/ \E w \in Workers : WorkerEmptyRunning(w)
    \/ \E w \in Workers : WorkerCheck(w)
    \/ \E w \in Workers : WorkerDiscardPending(w)
    \/ \E w \in Workers : WorkerAddRunning(w)
    \/ \E w \in Workers : ExecuteStart(w)
    \/ \E w \in Workers, ok \in BOOLEAN : ExecuteEnd(w, ok)
    \/ \E w \in Workers : WorkerDiscardRunning(w)
    \/ \E w \in Workers : WorkerRecord(w)

\* ------------------------------------------------- compilation pipeline
Files == {"a.c", "b.c"}
\* result of _find_source_files
SourceFiles == IF has_sources THEN <<"a.c", "b.c">> ELSE <<>>
Contents == {"v1", "v2"}
Flags == {"-O0", "-O2"}

\* hashlib.md5(f.read()).hexdigest()
Md5(c) == IF c = "v1" THEN "6654c734" ELSE "1b267619"
Hashes == {Md5(c) : c \in Contents}

\* the content a stored fingerprint was taken from
Hashed(h) == IF h = None THEN None ELSE CHOOSE c \in Contents : Md5(c) = h

\* the directories that config["subprojects"] may name, in its order
Subs == {"s1", "s2"}
SubOrder == <<"s1", "s2">>
Layout(a, b) == [s \in Subs |-> IF s = "s1" THEN a ELSE b]

\* the subproject lists and trees the engine is made on: a declared
\* directory is missing, or present, or present with a project.yaml that
\* declares a subproject of its own whose directory is present ("nested")
SubprojectLayouts ==
    { Layout("undeclared", "undeclared"),
      Layout("present", "undeclared"),
      Layout("missing", "undeclared"),
      Layout("nested", "undeclared"),
      Layout("present", "present"),
      Layout("present", "missing") }

\* the directories named by config["subprojects"]
Declared(sp) == {s \in Subs : sp[s] # "undeclared"}

\* _initialize_subprojects: an engine for each declared directory that
\* exists; a declared directory that does not exist is reported and left
\* out
InitializeSubprojects(sp) == {s \in Subs : sp[s] \in {"present", "nested"}}

\* the subproject that the project.yaml of a nested directory declares
Inner(s) == IF s = "s1" THEN "s1/t" ELSE "s2/t"

\* the engines a tree can hold below its root
Engines == Subs \cup {Inner(s) : s \in Subs}

\* the engines of the tree: BuildEngine(subproject_path) makes the
\* engines of the subprojects of the subproject in its own __init__
EngineTree ==
    subproject_engines \cup
    {Inner(s) : s \in {x \in subproject_engines : subprojects[x] = "nested"}}

\* the build_subprojects argument of the call that builds a subproject
ChildBuildsSubprojects == FALSE

\* the builds made below subproject s by the call that builds s
InnerBuilt(s, st) ==
    IF ChildBuildsSubprojects /\ subprojects[s] = "nested"
    THEN [st EXCEPT ![Inner(s)] = "ok"]
    ELSE st

\* the bootstrap entry of project.yaml: absent, or a mapping that names
\* a task and gives the command to run
BootstrapEntries ==
    { [form |-> "absent",  task |-> None, command |-> None],
      [form |-> "mapping", task |-> "prepare", command |-> "mkdir -p bin"] }

\* load_config: a mapping gets the keys it lacks, any other entry is
\* replaced by the default mapping
LoadBootstrap(entry) ==
    IF entry.form = "mapping"
    THEN [task    |-> IF entry.task = None THEN "bootstrap" ELSE entry.task,
          command |-> IF entry.command = None THEN "" ELSE entry.command]
    ELSE [task |-> "bootstrap", command |-> ""]

\* `for cmd in bootstrap_commands` in _run_bootstrap, where
\* bootstrap_commands is config["bootstrap"]: a mapping gives its keys,
\* and cmd.format leaves them as they are
BootstrapCommands(b) == <<"task", "command">>

\* the descriptors the engine is made on: subproject list, bootstrap
\* entry, source files in the tree, project_type, and a type key that
\* is absent or repeats project_type
Descriptors ==
    { d \in [subprojects : SubprojectLayouts, bootstrap : BootstrapEntries,
             has_sources : BOOLEAN,
             project_type : {"executable", "library"},
             type_key : {None, "executable", "library"}] :
          d.type_key \in {None, d.project_type} }

\* a project of one directory, without bootstrap entry
PlainDescriptor ==
    [subprojects |-> Layout("undeclared", "undeclared"),
     bootstrap |-> [form |-> "absent", task |-> None, command |-> None],
     has_sources |-> TRUE,
     project_type |-> "executable", type_key |-> None]

\* the scalar fields of the record returned by _load_build_cache when
\* the file is absent or unreadable, and set by clean
EmptyMeta ==
    [last_build_time |-> 0, compiler_flags |-> "", output_file |-> ""]

\* the scalar fields of a record written after some earlier build
FullMeta ==
    [last_build_time |-> 1, compiler_flags |-> "-O0", output_file |-> "out"]

NoHashes == [f \in Files |-> None]

\* the empty cache record
EmptyCache == [form |-> "record", hashes |-> NoHashes, meta |-> EmptyMeta]

\* what obj/cache.json may hold when the engine is made: nothing, text
\* that is not JSON, a JSON list, a JSON object without the keys of a
\* cache record, an empty record, a record of an earlier build
DiskCaches ==
    { [form |-> "absent",  hashes |-> NoHashes, meta |-> EmptyMeta],
      [form |-> "corrupt", hashes |-> NoHashes, meta |-> EmptyMeta],
      [form |-> "list",    hashes |-> NoHashes, meta |-> EmptyMeta],
      [form |-> "dict",    hashes |-> NoHashes, meta |-> EmptyMeta],
      EmptyCache,
      [form |-> "record", hashes |-> [f \in Files |-> Md5("v1")],
       meta |-> FullMeta] }

\* what obj/cache.json holds
DiskCache == [form |-> disk_form, hashes |-> disk_hashes, meta |-> disk_meta]

\* _load_build_cache: the parsed value of the file, whatever it is, and
\* the empty record when the file is absent or json.load raises
LoadBuildCache(disk) ==
    IF disk.form \in {"absent", "corrupt"} THEN EmptyCache ELSE disk

\* self.build_cache["last_build_time"] = time.time() and
\* self.build_cache["output_file"] = output_file
Stamped(meta) ==
    [meta EXCEPT !.last_build_time = 1, !.output_file = "out"]

\* _has_file_changed and _update_file_hash: the answer and the cache after
HasFileChanged(hashes, f) ==
    IF hashes[f] = None
    THEN [changed |-> TRUE, hashes |-> hashes]
    ELSE [changed |-> hashes[f] # Md5(content[f]),
          hashes  |-> [hashes EXCEPT ![f] = Md5(content[f])]]

\* a scan that asks the cache alone, whether the object file exists or not
RECURSIVE StaleScanByCacheOnly(_, _, _)
StaleScanByCacheOnly(fs, st, inc) ==
    IF fs = <<>> THEN st
    ELSE LET f == Head(fs) IN
         IF inc
         THEN LET r == HasFileChanged(st.hashes, f) IN
              StaleScanByCacheOnly(Tail(fs),
                   [hashes  |-> r.hashes,
                    stale   |-> IF r.changed THEN Append(st.stale, f)
                                ELSE st.stale,
                    checked |-> st.checked \cup {f},
                    ret     |-> [st.ret EXCEPT ![f] = r.changed],
                    raised  |-> FALSE],
                   inc)
         ELSE StaleScanByCacheOnly(Tail(fs),
                                   [st EXCEPT !.stale = Append(@, f)], inc)

\* the loop `for source_file in source_files` that finds the stale files;
\* self.build_cache["file_hashes"] raises when the cache is not a record
RECURSIVE StaleScan(_, _, _)
StaleScan(fs, st, inc) ==
    IF fs = <<>> THEN st
    ELSE LET f == Head(fs) IN
         IF inc /\ obj_exists[f]
         THEN IF cache_form # "record"
              THEN [st EXCEPT !.raised = TRUE, !.stale = <<>>]
              ELSE LET r == HasFileChanged(st.hashes, f) IN
                   StaleScan(Tail(fs),
                        [hashes  |-> r.hashes,
                         stale   |-> IF r.changed THEN Append(st.stale, f)
                                     ELSE st.stale,
                         checked |-> st.checked \cup {f},
                         ret     |-> [st.ret EXCEPT ![f] = r.changed],
                         raised  |-> FALSE],
                        inc)
         ELSE StaleScan(Tail(fs), [st EXCEPT !.stale = Append(@, f)], inc)

\* a gather that returns as soon as one task has ended
GatherFirstDone(ct) == \E f \in Files : ct[f] \in {"ok", "failed"}

\* asyncio.gather(*tasks, return_exceptions=True) has every result
GatherDone(ct) == \A f \in Files : ct[f] \notin {"created", "running"}

\* an early return that gives True
ReturnsTrue(cause) ==
    [epc |-> "done", artifact |-> "none", eresult |-> TRUE,
     tool |-> "none", failure |-> cause]

\* the build returns False before the artifact step; an exception leaves
\* _build_with_options and build() returns False (cause "cache")
Failed(cause) ==
    [epc |-> "done", artifact |-> "none", eresult |-> FALSE,
     tool |-> "none", failure |-> cause]

\* the build goes on
Going(pc) ==
    [epc |-> pc, artifact |-> "none", eresult |-> None,
     tool |-> "none", failure |-> "none"]

\* output_type = self.config.get("type", "executable").lower()
OutputType == IF type_key = None THEN "executable" ELSE type_key

\* the archiver for a library, the linker otherwise
ArtifactTool ==
    IF OutputType \in {"library", "static_library"} THEN "ar" ELSE "ld"

\* a link or archive invocation started without the check for missing
\* object files
ArtifactStepUnchecked(objs) ==
    [epc |-> "artifact", artifact |-> "running", eresult |-> None,
     tool |-> ArtifactTool, failure |-> "none"]

\* the check for missing object files, then the link or archive
\* invocation is started (obj_files holds an object for every source
\* file, and source_files is not empty here)
ArtifactStep(objs) ==
    IF \A i \in DOMAIN SourceFiles : objs[SourceFiles[i]]
    THEN [epc |-> "artifact", artifact |-> "running", eresult |-> None,
          tool |-> ArtifactTool, failure |-> "none"]
    ELSE Failed("object")

\* the files of fs after f
RECURSIVE After(_, _)
After(fs, f) ==
    IF fs = <<>> THEN <<>>
    ELSE IF Head(fs) = f THEN Tail(fs) ELSE After(Tail(fs), f)

\* self.subproject_engines.items(), in the order of the declaration
RECURSIVE EngineOrder(_)
EngineOrder(order) ==
    IF order = <<>> THEN <<>>
    ELSE IF Head(order) \in subproject_engines
         THEN <<Head(order)>> \o EngineOrder(Tail(order))
         ELSE EngineOrder(Tail(order))

\* no clean since the latest build
NotCleaned == [since |-> FALSE, hashes |-> NoHashes]

\* no build in hand: the locals of _build_with_options
NoBuild ==
    /\ epc = "idle"
    /\ incremental = FALSE
    /\ multi_threaded = FALSE
    /\ files_to_compile = <<>>
    /\ ctask = [f \in Files |-> "none"]
    /\ artifact = "none"
    /\ eresult = None
    /\ last_check = [f \in Files |-> <<>>]
    /\ follows = [unchanged_incremental |-> FALSE, flags_changed |-> FALSE]
    /\ build_subprojects = FALSE
    /\ sub_state = [s \in Engines |-> "none"]
    /\ tool = "none"
    /\ saved = FALSE
    /\ failure = "none"
    /\ ran = <<>>

\* BuildEngine.__init__ on a project without object files, with
\* descriptor d, whose cache file holds `disk` and whose output file
\* exists or not (out)
EngineConstructed(d, disk, out) ==
    /\ content = [f \in Files |-> "v1"]
    /\ obj_exists = [f \in Files |-> FALSE]
    /\ output_exists = out
    /\ config_flags = "-O0"
    /\ subprojects = d.subprojects
    /\ subproject_engines = InitializeSubprojects(d.subprojects)
    /\ bootstrap = LoadBootstrap(d.bootstrap)
    /\ has_sources = d.has_sources
    /\ project_type = d.project_type
    /\ type_key = d.type_key
    /\ disk_form = disk.form
    /\ disk_hashes = disk.hashes
    /\ disk_meta = disk.meta
    /\ cache_form = LoadBuildCache(disk).form
    /\ file_hashes = LoadBuildCache(disk).hashes
    /\ cache_meta = LoadBuildCache(disk).meta
    /\ seen = [f \in Files |-> Hashed(LoadBuildCache(disk).hashes[f])]
    /\ last_build = <<>>
    /\ compile_failed = [f \in Files |-> FALSE]
    /\ cleaned = NotCleaned
    /\ NoBuild

\* `self.jobs = os.cpu_count() or 1` on a host of n cores
OnHost(n) == jobs = n

\* the record of the latest build after a change made outside the engine
Touched(lb) == IF lb = <<>> THEN lb ELSE [lb EXCEPT !.touched = TRUE]

\* a new BuildEngine for the same project: the cache file is read again
Construct ==
    /\ epc = "idle"
    /\ \/ <<cache_form, file_hashes, cache_meta>> #
              <<LoadBuildCache(DiskCache).form,
                LoadBuildCache(DiskCache).hashes,
                LoadBuildCache(DiskCache).meta>>
       \/ \E f \in Files : compile_failed[f]
    /\ LET c == LoadBuildCache(DiskCache)
       IN /\ cache_form' = c.form
          /\ file_hashes' = c.hashes
          /\ cache_meta' = c.meta
    /\ UNCHANGED <<content, obj_exists, config_flags, disk_hashes, epc,
                   incremental, multi_threaded, files_to_compile, ctask,
                   artifact, eresult, seen, last_check, last_build, follows>>
    /\ UNCHANGED <<dvars, disk_form, disk_meta, output_exists, bvars>>
    /\ compile_failed' = [f \in Files |-> FALSE]
    /\ UNCHANGED <<ran, cleaned>>
    /\ UNCHANGED <<svars, fvars>>

\* the user edits a source file between two builds
EditSource(f, c) ==
    /\ epc = "idle"
    /\ c # content[f]
    /\ content' = [content EXCEPT ![f] = c]
    /\ last_build' = Touched(last_build)
    /\ UNCHANGED <<obj_exists, config_flags, file_hashes, disk_hashes, epc,
                   incremental, multi_threaded, files_to_compile, ctask,
                   artifact, eresult, seen, last_check, follows>>
    /\ UNCHANGED <<dvars, cvars, output_exists, bvars>>
    /\ UNCHANGED gvars
    /\ UNCHANGED <<svars, fvars>>

\* the user edits compiler_flags in project.yaml between two builds; the
\* configuration is read by __init__, so the next build is made by a new
\* BuildEngine
EditFlags(fl) ==
    /\ epc = "idle"
    /\ fl # config_flags
    /\ config_flags' = fl
    /\ LET c == LoadBuildCache(DiskCache)
       IN /\ cache_form' = c.form
          /\ file_hashes' = c.hashes
          /\ cache_meta' = c.meta
    /\ last_build' = Touched(last_build)
    /\ UNCHANGED <<content, obj_exists, disk_hashes, epc, incremental,
                   multi_threaded, files_to_compile, ctask, artifact,
                   eresult, seen, last_check, follows>>
    /\ UNCHANGED <<dvars, disk_form, disk_meta, output_exists, bvars>>
    /\ compile_failed' = [f \in Files |-> FALSE]
    /\ UNCHANGED <<ran, cleaned>>
    /\ UNCHANGED <<svars, fvars>>

\* an object file is removed between two builds
RemoveObject(f) ==
    /\ epc = "idle"
    /\ obj_exists[f]
    /\ obj_exists' = [obj_exists EXCEPT ![f] = FALSE]
    /\ last_build' = Touched(last_build)
    /\ UNCHANGED <<content, config_flags, file_hashes, disk_hashes, epc,
                   incremental, multi_threaded, files_to_compile, ctask,
                   artifact, eresult, seen, last_check, follows>>
    /\ UNCHANGED <<dvars, cvars, output_exists, bvars>>
    /\ UNCHANGED gvars
    /\ UNCHANGED <<svars, fvars>>

\* _build_with_options from `output_file = self.config.get("output")` to
\* its next await: no source file is a failure; otherwise the stale files
\* are found, then either the compile tasks are created (parallel mode),
\* or the first compile invocation is made (sequential mode), or, with
\* nothing to compile, the artifact step is entered
ScanAndCompile(inc, mt) ==
    /\ LET sc == StaleScan(SourceFiles,
                           [hashes |-> file_hashes, stale |-> <<>>,
                            checked |-> {},
                            ret |-> [f \in Files |-> FALSE],
                            raised |-> FALSE], inc)
           nx == IF SourceFiles = <<>> THEN Failed("no_sources")
                 ELSE IF sc.raised THEN Failed("cache")
                 ELSE IF sc.stale = <<>> THEN ArtifactStep(obj_exists)
                 ELSE Going("compile")
       IN /\ file_hashes' = sc.hashes
          /\ files_to_compile' = sc.stale
          /\ ctask' = [f \in Files |->
                         IF f \notin SeqToSet(sc.stale) THEN "none"
                         ELSE IF mt THEN "created"
                         ELSE IF f = Head(sc.stale) THEN "running"
                         ELSE "none"]
          /\ epc' = nx.epc
          /\ artifact' = nx.artifact
          /\ eresult' = nx.eresult
          /\ tool' = nx.tool
          /\ failure' = nx.failure
          /\ seen' = [f \in Files |->
                        IF f \in sc.checked THEN content[f] ELSE seen[f]]
          /\ last_check' = [f \in Files |->
                              IF f \in sc.checked
                              THEN <<sc.ret[f], seen[f] # content[f]>>
                              ELSE <<>>]
          /\ last_build' = IF nx.epc = "done" /\ inc
                           THEN [ok |-> FALSE, flags |-> config_flags,
                                 touched |-> FALSE]
                           ELSE IF nx.epc = "done" THEN <<>>
                           ELSE last_build
    /\ incremental' = inc
    /\ multi_threaded' = mt
    /\ follows' =
         [unchanged_incremental |->
              inc /\ last_build # <<>>
                  /\ last_build.ok /\ ~last_build.touched,
          flags_changed |->
              inc /\ last_build # <<>>
                  /\ last_build.flags # config_flags]

\* `if build_subprojects and self.subproject_engines`
BuildsSubprojects(bs) == bs /\ subproject_engines # {}

\* _run_bootstrap up to the await of its first process; without
\* commands it returns True and the build goes on to its sources
RunBootstrap(inc, mt) ==
    IF BootstrapCommands(bootstrap) = <<>>
    THEN /\ ScanAndCompile(inc, mt)
         /\ ran' = <<>>
    ELSE /\ epc' = "bootstrap"
         /\ ran' = <<Head(BootstrapCommands(bootstrap))>>
         /\ incremental' = inc
         /\ multi_threaded' = mt
         /\ UNCHANGED <<file_hashes, files_to_compile, ctask, artifact,
                        eresult, tool, failure, seen, last_check,
                        last_build, follows>>

\* build() on a project without subprojects to build:
\* _build_with_options up to its first await
EngineBuildStart(inc, mt, bs) ==
    /\ epc = "idle"
    /\ ~BuildsSubprojects(bs)
    /\ RunBootstrap(inc, mt)
    /\ build_subprojects' = bs
    /\ saved' = FALSE
    /\ UNCHANGED <<content, obj_exists, config_flags, disk_hashes>>
    /\ UNCHANGED <<dvars, cvars, output_exists, sub_state>>
    /\ UNCHANGED <<compile_failed, cleaned>>
    /\ UNCHANGED <<svars, fvars>>

\* build() with subprojects to build: _build_with_options up to the await
\* of the first subproject's build. The child engine runs its own
\* _build_with_options (with build_subprojects False) on its own tree;
\* the parent sees its result only, taken here as an input of
\* SubprojectEnd.
SubprojectsStart(inc, mt) ==
    /\ epc = "idle"
    /\ BuildsSubprojects(TRUE)
    /\ epc' = "subprojects"
    /\ incremental' = inc
    /\ multi_threaded' = mt
    /\ build_subprojects' = TRUE
    /\ saved' = FALSE
    /\ sub_state' = [sub_state EXCEPT
                        ![Head(EngineOrder(SubOrder))] = "building"]
    /\ UNCHANGED <<content, obj_exists, config_flags, file_hashes,
                   disk_hashes, files_to_compile, ctask, artifact, eresult,
                   seen, last_check, last_build, follows>>
    /\ UNCHANGED <<dvars, cvars, output_exists, tool, failure>>
    /\ UNCHANGED gvars
    /\ UNCHANGED <<svars, fvars>>

\* the record of the build in hand when it ends with result ok
BuildRecord(ok) ==
    IF incremental
    THEN [ok |-> ok, flags |-> config_flags, touched |-> FALSE]
    ELSE <<>>

\* the build of subproject s returns: on failure the parent returns
\* False; otherwise the next subproject is built, or the bootstrap
\* commands are run
SubprojectEnd(s, ok) ==
    /\ epc = "subprojects"
    /\ sub_state[s] = "building"
    /\ LET rest == After(EngineOrder(SubOrder), s) IN
       \/ /\ ~ok
          /\ sub_state' = InnerBuilt(s, [sub_state EXCEPT ![s] = "failed"])
          /\ epc' = "done"
          /\ eresult' = FALSE
          /\ failure' = "subproject"
          /\ last_build' = BuildRecord(FALSE)
          /\ UNCHANGED <<file_hashes, files_to_compile, ctask, artifact,
                         tool, seen, last_check, incremental,
                         multi_threaded, follows, ran>>
       \/ /\ ok
          /\ rest # <<>>
          /\ sub_state' = InnerBuilt(s, [sub_state EXCEPT
                                             ![s] = "ok",
                                             ![Head(rest)] = "building"])
          /\ UNCHANGED <<file_hashes, files_to_compile, ctask, epc,
                         artifact, eresult, tool, failure, seen, last_check,
                         last_build, incremental, multi_threaded, follows,
                         ran>>
       \/ /\ ok
          /\ rest = <<>>
          /\ sub_state' = InnerBuilt(s, [sub_state EXCEPT ![s] = "ok"])
          /\ RunBootstrap(incremental, multi_threaded)
    /\ UNCHANGED <<content, obj_exists, config_flags, disk_hashes>>
    /\ UNCHANGED <<dvars, cvars, output_exists, build_subprojects, saved>>
    /\ UNCHANGED <<compile_failed, cleaned>>
    /\ UNCHANGED <<svars, fvars>>

\* the process of a bootstrap command ends: with a return code that is
\* not zero the build returns False; otherwise the next command is
\* started, and after the last one the build goes on to its sources
BootstrapEnd(ok) ==
    /\ epc = "bootstrap"
    /\ LET cmds == BootstrapCommands(bootstrap) IN
       IF ~ok
       THEN /\ epc' = "done"
            /\ eresult' = FALSE
            /\ failure' = "bootstrap"
            /\ last_build' = BuildRecord(FALSE)
            /\ UNCHANGED <<file_hashes, files_to_compile, ctask, artifact,
                           tool, seen, last_check, incremental,
                           multi_threaded, follows, ran>>
       ELSE IF Len(ran) < Len(cmds)
       THEN /\ ran' = Append(ran, cmds[Len(ran) + 1])
            /\ UNCHANGED <<file_hashes, files_to_compile, ctask, epc,
                           artifact, eresult, tool, failure, seen,
                           last_check, last_build, incremental,
                           multi_threaded, follows>>
       ELSE /\ ScanAndCompile(incremental, multi_threaded)
            /\ UNCHANGED ran
    /\ UNCHANGED <<content, obj_exists, config_flags, disk_hashes>>
    /\ UNCHANGED <<dvars, cvars, output_exists, build_subprojects,
                   sub_state, saved>>
    /\ UNCHANGED <<compile_failed, cleaned>>
    /\ UNCHANGED <<svars, fvars>>

\* whether the compiler process left its object file: a process that
\* returns a code other than 0 leaves none, and one that returns 0 has
\* written it or not (_compile_file looks at the return code only)
ObjectWritten(ok) == IF ok THEN BOOLEAN ELSE {FALSE}

\* a compile task created by asyncio.create_task runs _compile_file up to
\* the start of its compiler process
CompileStart(f) ==
    /\ ctask[f] = "created"
    /\ ctask' = [ctask EXCEPT ![f] = "running"]
    /\ UNCHANGED <<content, obj_exists, config_flags, file_hashes,
                   disk_hashes, epc, incremental, multi_threaded,
                   files_to_compile, artifact, eresult, seen, last_check,
                   last_build, follows>>
    /\ UNCHANGED <<dvars, cvars, output_exists, bvars>>
    /\ UNCHANGED gvars
    /\ UNCHANGED <<svars, fvars>>

\* a compile failure that cancels the tasks that have not ended
CompileEndCancelling(f, ok) ==
    /\ multi_threaded
    /\ ctask[f] = "running"
    /\ ctask' = [g \in Files |->
                   IF g = f THEN (IF ok THEN "ok" ELSE "failed")
                   ELSE IF ~ok /\ ctask[g] \in {"created", "running"}
                   THEN "cancelled"
                   ELSE ctask[g]]
    /\ \E written \in ObjectWritten(ok) :
           obj_exists' = [obj_exists EXCEPT ![f] = @ \/ written]
    /\ compile_failed' = [compile_failed EXCEPT ![f] = ~ok]
    /\ UNCHANGED <<content, config_flags, file_hashes, disk_hashes, epc,
                   incremental, multi_threaded, files_to_compile, artifact,
                   eresult, seen, last_check, last_build, follows>>
    /\ UNCHANGED <<dvars, cvars, output_exists, bvars, ran, cleaned>>
    /\ UNCHANGED <<svars, fvars>>

\* parallel mode: the compiler process of f ends, and _compile_file
\* returns whether its return code was 0
CompileEnd(f, ok) ==
    /\ multi_threaded
    /\ ctask[f] = "running"
    /\ ctask' = [ctask EXCEPT ![f] = IF ok THEN "ok" ELSE "failed"]
    /\ \E written \in ObjectWritten(ok) :
           obj_exists' = [obj_exists EXCEPT ![f] = @ \/ written]
    /\ compile_failed' = [compile_failed EXCEPT ![f] = ~ok]
    /\ UNCHANGED <<content, config_flags, file_hashes, disk_hashes, epc,
                   incremental, multi_threaded, files_to_compile, artifact,
                   eresult, seen, last_check, last_build, follows>>
    /\ UNCHANGED <<dvars, cvars, output_exists, bvars, ran, cleaned>>
    /\ UNCHANGED <<svars, fvars>>

\* parallel mode: gather returns, the results are checked, and the
\* artifact step is entered
GatherReturn ==
    /\ epc = "compile"
    /\ multi_threaded
    /\ GatherDone(ctask)
    /\ LET nx == IF \E f \in Files : ctask[f] = "failed"
                 THEN Failed("compile")
                 ELSE ArtifactStep(obj_exists)
       IN /\ epc' = nx.epc
          /\ artifact' = nx.artifact
          /\ eresult' = nx.eresult
          /\ tool' = nx.tool
          /\ failure' = nx.failure
          /\ last_build' = IF nx.epc = "done" THEN BuildRecord(FALSE)
                           ELSE last_build
    /\ UNCHANGED <<content, obj_exists, config_flags, file_hashes,
                   disk_hashes, incremental, multi_threaded,
                   files_to_compile, ctask, seen, last_check, follows>>
    /\ UNCHANGED <<dvars, cvars, output_exists, build_subprojects,
                   sub_state, saved>>
    /\ UNCHANGED gvars
    /\ UNCHANGED <<svars, fvars>>

\* a sequential loop that goes on to the next file after a failure
SequentialCompileEndContinuing(f, ok) ==
    /\ epc = "compile"
    /\ ~multi_threaded
    /\ ctask[f] = "running"
    /\ \E written \in ObjectWritten(ok) :
       LET rest == After(files_to_compile, f)
           objs == [obj_exists EXCEPT ![f] = @ \/ written]
           nx   == IF rest # <<>> THEN Going("compile")
                   ELSE IF ~ok THEN Failed("compile")
                   ELSE ArtifactStep(objs)
       IN /\ obj_exists' = objs
          /\ compile_failed' = [compile_failed EXCEPT ![f] = ~ok]
          /\ ctask' = [g \in Files |->
                         IF g = f THEN (IF ok THEN "ok" ELSE "failed")
                         ELSE IF rest # <<>> /\ g = Head(rest)
                         THEN "running"
                         ELSE ctask[g]]
          /\ epc' = nx.epc
          /\ artifact' = nx.artifact
          /\ eresult' = nx.eresult
          /\ tool' = nx.tool
          /\ failure' = nx.failure
          /\ last_build' = IF nx.epc = "done" THEN BuildRecord(FALSE)
                           ELSE last_build
    /\ UNCHANGED <<content, config_flags, file_hashes, disk_hashes,
                   incremental, multi_threaded, files_to_compile, seen,
                   last_check, follows>>
    /\ UNCHANGED <<dvars, cvars, output_exists, build_subprojects,
                   sub_state, saved, ran, cleaned>>
    /\ UNCHANGED <<svars, fvars>>

\* sequential mode: the compiler process of f ends; on failure the build
\* returns, otherwise the next file is compiled or the artifact step is
\* entered
SequentialCompileEnd(f, ok) ==
    /\ epc = "compile"
    /\ ~multi_threaded
    /\ ctask[f] = "running"
    /\ \E written \in ObjectWritten(ok) :
       LET rest == After(files_to_compile, f)
           objs == [obj_exists EXCEPT ![f] = @ \/ written]
           nx   == IF ~ok THEN Failed("compile")
                   ELSE IF rest # <<>> THEN Going("compile")
                   ELSE ArtifactStep(objs)
       IN /\ obj_exists' = objs
          /\ compile_failed' = [compile_failed EXCEPT ![f] = ~ok]
          /\ ctask' = [g \in Files |->
                         IF g = f THEN (IF ok THEN "ok" ELSE "failed")
                         ELSE IF ok /\ rest # <<>> /\ g = Head(rest)
                         THEN "running"
                         ELSE ctask[g]]
          /\ epc' = nx.epc
          /\ artifact' = nx.artifact
          /\ eresult' = nx.eresult
          /\ tool' = nx.tool
          /\ failure' = nx.failure
          /\ last_build' = IF nx.epc = "done" THEN BuildRecord(FALSE)
                           ELSE last_build
    /\ UNCHANGED <<content, config_flags, file_hashes, disk_hashes,
                   incremental, multi_threaded, files_to_compile, seen,
                   last_check, follows>>
    /\ UNCHANGED <<dvars, cvars, output_exists, build_subprojects,
                   sub_state, saved, ran, cleaned>>
    /\ UNCHANGED <<svars, fvars>>

\* the linker or archiver process ends; the cache is saved, then stamped
\* with the build time and the output file, and the build returns the
\* result of the invocation. A cache that is a JSON list cannot be
\* stamped: the exception leaves _build_with_options and build() returns
\* False
ArtifactEnd(ok) ==
    /\ epc = "artifact"
    /\ artifact = "running"
    /\ artifact' = IF ok THEN "ok" ELSE "failed"
    /\ output_exists' = (output_exists \/ ok)
    /\ disk_form' = cache_form
    /\ disk_hashes' = file_hashes
    /\ disk_meta' = cache_meta
    /\ saved' = TRUE
    /\ cache_meta' = IF cache_form = "list" THEN cache_meta
                     ELSE Stamped(cache_meta)
    /\ eresult' = (ok /\ cache_form # "list")
    /\ failure' = IF ~ok THEN "artifact"
                  ELSE IF cache_form = "list" THEN "cache"
                  ELSE "none"
    /\ epc' = "done"
    /\ last_build' = BuildRecord(ok /\ cache_form # "list")
    /\ UNCHANGED <<content, obj_exists, config_flags, file_hashes,
                   incremental, multi_threaded, files_to_compile, ctask,
                   seen, last_check, follows>>
    /\ UNCHANGED <<dvars, cache_form, build_subprojects, sub_state, tool>>
    /\ UNCHANGED gvars
    /\ UNCHANGED <<svars, fvars>>

\* the caller has the result: the locals of the call are gone
EngineBuildReturn ==
    /\ epc = "done"
    /\ epc' = "idle"
    /\ incremental' = FALSE
    /\ multi_threaded' = FALSE
    /\ files_to_compile' = <<>>
    /\ ctask' = [f \in Files |-> "none"]
    /\ artifact' = "none"
    /\ eresult' = None
    /\ last_check' = [f \in Files |-> <<>>]
    /\ follows' = [unchanged_incremental |-> FALSE, flags_changed |-> FALSE]
    /\ build_subprojects' = FALSE
    /\ sub_state' = [s \in Engines |-> "none"]
    /\ tool' = "none"
    /\ saved' = FALSE
    /\ failure' = "none"
    /\ ran' = <<>>
    /\ cleaned' = NotCleaned
    /\ UNCHANGED <<content, obj_exists, config_flags, file_hashes,
                   disk_hashes, seen, last_build>>
    /\ UNCHANGED <<dvars, cvars, output_exists, compile_failed>>
    /\ UNCHANGED <<svars, fvars>>

\* a clean that resets the cache and does not save it
CleanWithoutSave(fault) ==
    /\ epc = "idle"
    /\ fault = "remove" => output_exists
    /\ epc' = "cleaned"
    /\ eresult' = (fault = "none")
    /\ obj_exists' = IF fault = "rmtree" THEN obj_exists
                     ELSE [f \in Files |-> FALSE]
    /\ output_exists' = (output_exists /\ fault # "none")
    /\ last_build' = IF fault = "rmtree" THEN last_build
                     ELSE Touched(last_build)
    /\ IF fault = "none"
       THEN /\ cache_form' = EmptyCache.form
            /\ file_hashes' = EmptyCache.hashes
            /\ cache_meta' = EmptyCache.meta
       ELSE UNCHANGED <<cache_form, file_hashes, cache_meta>>
    /\ disk_form' = IF fault = "rmtree" THEN disk_form ELSE "absent"
    /\ disk_hashes' = IF fault = "rmtree" THEN disk_hashes ELSE NoHashes
    /\ disk_meta' = IF fault = "rmtree" THEN disk_meta ELSE EmptyMeta
    /\ seen' = IF fault = "none" THEN [f \in Files |-> None] ELSE seen
    /\ UNCHANGED <<content, config_flags, incremental, multi_threaded,
                   files_to_compile, ctask, artifact, last_check, follows>>
    /\ UNCHANGED <<dvars, bvars>>
    /\ cleaned' = IF fault = "none"
                  THEN [since |-> TRUE, hashes |-> file_hashes]
                  ELSE cleaned
    /\ compile_failed' = IF fault = "rmtree" THEN compile_failed
                         ELSE [f \in Files |-> FALSE]
    /\ UNCHANGED ran
    /\ UNCHANGED <<svars, fvars>>

\* a clean that removes the output file and leaves the build directory
\* and the cache as they are
CleanOutputOnly(fault) ==
    /\ epc = "idle"
    /\ fault = "remove" => output_exists
    /\ epc' = "cleaned"
    /\ eresult' = (fault = "none")
    /\ output_exists' = (output_exists /\ fault # "none")
    /\ last_build' = IF fault = "rmtree" THEN last_build
                     ELSE Touched(last_build)
    /\ cleaned' = IF fault = "none"
                  THEN [since |-> TRUE, hashes |-> file_hashes]
                  ELSE cleaned
    /\ UNCHANGED <<content, obj_exists, config_flags, file_hashes,
                   disk_hashes, incremental, multi_threaded,
                   files_to_compile, ctask, artifact, seen, last_check,
                   follows>>
    /\ UNCHANGED <<dvars, cvars, bvars>>
    /\ compile_failed' = IF fault = "rmtree" THEN compile_failed
                         ELSE [f \in Files |-> FALSE]
    /\ UNCHANGED ran
    /\ UNCHANGED <<svars, fvars>>

\* clean(): the build directory, which holds the object files and
\* cache.json, is removed and made again; the output file is removed;
\* the cache is reset and saved. shutil.rmtree or os.remove may raise
\* (fault), and clean then returns False from where it was. The clean of
\* the subprojects changes nothing of this project and its result is not
\* looked at.
Clean(fault) ==
    /\ epc = "idle"
    /\ fault = "remove" => output_exists
    /\ epc' = "cleaned"
    /\ eresult' = (fault = "none")
    /\ obj_exists' = IF fault = "rmtree" THEN obj_exists
                     ELSE [f \in Files |-> FALSE]
    /\ output_exists' = (output_exists /\ fault # "none")
    /\ last_build' = IF fault = "rmtree" THEN last_build
                     ELSE Touched(last_build)
    /\ IF fault = "none"
       THEN /\ cache_form' = EmptyCache.form
            /\ file_hashes' = EmptyCache.hashes
            /\ cache_meta' = EmptyCache.meta
            /\ disk_form' = EmptyCache.form
            /\ disk_hashes' = EmptyCache.hashes
            /\ disk_meta' = EmptyCache.meta
       ELSE /\ UNCHANGED <<cache_form, file_hashes, cache_meta>>
            /\ disk_form' = IF fault = "rmtree" THEN disk_form ELSE "absent"
            /\ disk_hashes' = IF fault = "rmtree" THEN disk_hashes
                              ELSE NoHashes
            /\ disk_meta' = IF fault = "rmtree" THEN disk_meta
                            ELSE EmptyMeta
    /\ seen' = IF fault = "none" THEN [f \in Files |-> None] ELSE seen
    /\ UNCHANGED <<content, config_flags, incremental, multi_threaded,
                   files_to_compile, ctask, artifact, last_check, follows>>
    /\ UNCHANGED <<dvars, bvars>>
    /\ cleaned' = IF fault = "none"
                  THEN [since |-> TRUE, hashes |-> file_hashes]
                  ELSE cleaned
    /\ compile_failed' = IF fault = "rmtree" THEN compile_failed
                         ELSE [f \in Files |-> FALSE]
    /\ UNCHANGED ran
    /\ UNCHANGED <<svars, fvars>>

\* the caller has the result of clean
CleanReturn ==
    /\ epc = "cleaned"
    /\ epc' = "idle"
    /\ eresult' = None
    /\ UNCHANGED <<content, obj_exists, config_flags, file_hashes,
                   disk_hashes, incremental, multi_threaded,
                   files_to_compile, ctask, artifact, seen, last_check,
                   last_build, follows>>
    /\ UNCHANGED <<dvars, cvars, output_exists, bvars>>
    /\ UNCHANGED gvars
    /\ UNCHANGED <<svars, fvars>>

\* ---------------------------------------------------------- shell history
\* a command line is a sequence of characters; the ones the shell hands
\* to add_to_history are stripped and not empty
Commands == { <<"a">>, <<"b">>, <<"a", " ", "b">> }

MAX_HISTORY_SIZE == 1000

\* the characters that str.strip removes
Whitespace == {" ", "\n"}

\* f.write(f"{cmd}\n") for every command of the history
RECURSIVE Written(_)
Written(h) ==
    IF h = <<>> THEN <<>>
    ELSE Head(h) \o <<"\n">> \o Written(Tail(h))

\* `for line in f`: the lines of the text, each with its newline
RECURSIVE FileLines(_, _)
FileLines(text, line) ==
    IF text = <<>>
    THEN IF line = <<>> THEN <<>> ELSE <<line>>
    ELSE IF Head(text) = "\n"
    THEN <<Append(line, "\n")>> \o FileLines(Tail(text), <<>>)
    ELSE FileLines(Tail(text), Append(line, Head(text)))

RECURSIVE LStrip(_)
LStrip(l) ==
    IF l # <<>> /\ Head(l) \in Whitespace THEN LStrip(Tail(l)) ELSE l

RECURSIVE RStrip(_)
RStrip(l) ==
    IF l # <<>> /\ l[Len(l)] \in Whitespace
    THEN RStrip(SubSeq(l, 1, Len(l) - 1))
    ELSE l

\* line.strip()
Strip(l) == RStrip(LStrip(l))

\* the loop of load_history: a line is appended when, stripped, it is not
\* empty and not in the history already
RECURSIVE LoadLines(_, _)
LoadLines(h, ls) ==
    IF ls = <<>> THEN h
    ELSE LET line == Strip(Head(ls))
         IN LoadLines(IF line # <<>> /\ line \notin SeqToSet(h)
                      THEN Append(h, line) ELSE h,
                      Tail(ls))

\* the module has been imported: command_history = [], and the history
\* file does not exist yet
ShellStarted ==
    /\ command_history = <<>>
    /\ history_file = [exists |-> FALSE, text |-> <<>>]
    /\ last_saved = <<>>
    /\ restored = FALSE

\* add_to_history(cmd)
AddToHistory(cmd) ==
    /\ Len(command_history) < MaxHistory
    /\ LET h == IF /\ cmd # <<>>
                   /\ \/ command_history = <<>>
                      \/ cmd # command_history[Len(command_history)]
                THEN LET a == Append(command_history, cmd)
                     IN IF Len(a) > MAX_HISTORY_SIZE THEN Tail(a) ELSE a
                ELSE command_history
       IN /\ command_history' = h
          /\ restored' = (restored /\ h = command_history)
    /\ UNCHANGED <<history_file, last_saved, config_file, loaded, valid>>
    /\ UNCHANGED <<svars, evars, pvars>>

\* save_history(history_file): the file is written again from its start;
\* an exception (ok is false) is swallowed and leaves the file as it was
SaveHistory(ok) ==
    /\ IF ok
       THEN /\ history_file' = [exists |-> TRUE,
                                text |-> Written(command_history)]
            /\ last_saved' = command_history
       ELSE UNCHANGED <<history_file, last_saved>>
    /\ restored' = FALSE
    /\ UNCHANGED <<command_history, config_file, loaded, valid>>
    /\ UNCHANGED <<svars, evars, pvars>>

\* the history is emptied: a new shell process imports the module again
ClearHistory ==
    /\ command_history # <<>>
    /\ command_history' = <<>>
    /\ restored' = FALSE
    /\ UNCHANGED <<history_file, last_saved, config_file, loaded, valid>>
    /\ UNCHANGED <<svars, evars, pvars>>

\* load_history(history_file); a file that does not exist is passed over
LoadHistory ==
    /\ command_history' =
         IF history_file.exists
         THEN LoadLines(command_history, FileLines(history_file.text, <<>>))
         ELSE command_history
    /\ restored' = (command_history = <<>> /\ history_file.exists)
    /\ UNCHANGED <<history_file, last_saved, config_file, loaded, valid>>
    /\ UNCHANGED <<svars, evars, pvars>>

\* ------------------------------------------------------------ descriptor
MANDATORY_FIELDS ==
    {"project", "authors", "license", "language", "standard", "compiler",
     "project_dirs", "project_type", "output"}

\* the keys that load_config gives a default
DefaultedFields ==
    {"description", "version", "build_rule", "clean_rule", "compiler_flags",
     "subprojects", "ignore", "bootstrap"}

\* the key sets of the mappings: every mandatory field, all but one, none
MappingFields ==
    {MANDATORY_FIELDS, {}} \cup
    {MANDATORY_FIELDS \ {f} : f \in MANDATORY_FIELDS}

\* what load_config can find at config_path: no file, a file that cannot
\* be read, text that is not YAML, or a document that is empty (None), a
\* list, a scalar, or a mapping with some keys and with values that
\* validate_config accepts or not
ConfigFiles ==
    {[form |-> f, fields |-> {}, values |-> "valid"] :
        f \in {"missing", "unreadable", "unparseable", "null", "list",
               "scalar"}}
    \cup
    {[form |-> "mapping", fields |-> fs, values |-> v] :
        fs \in MappingFields,
        v \in {"valid", "bad_language", "bad_standard", "bad_project_type"}}

\* a descriptor with every mandatory field and valid values
FullConfigFile ==
    [form |-> "mapping", fields |-> MANDATORY_FIELDS, values |-> "valid"]

NotLoaded == [outcome |-> "none", keys |-> {}, values |-> "valid"]

\* load_config(config_path): {} when there is no file or when reading or
\* parsing raises; otherwise `field not in config` and config.setdefault
\* are applied to the document, which raises TypeError or AttributeError
\* when the document is not a mapping
LoadConfig(file) ==
    IF file.form \in {"missing", "unreadable", "unparseable"}
    THEN [outcome |-> "returned", keys |-> {}, values |-> "valid"]
    ELSE IF file.form # "mapping"
    THEN [outcome |-> "raised", keys |-> {}, values |-> "valid"]
    ELSE [outcome |-> "returned",
          keys |-> file.fields \cup DefaultedFields,
          values |-> file.values]

\* validate_config(config): the mandatory fields, then language, standard
\* and project_type
ValidateConfig(config) ==
    IF ~(MANDATORY_FIELDS \subseteq config.keys) THEN "invalid"
    ELSE IF config.values = "valid" THEN "valid" ELSE "invalid"

\* project.yaml is as c says; load_config has not been called
ConfigOnDisk(c) ==
    /\ config_file = c
    /\ loaded = NotLoaded
    /\ valid = "none"

\* a call of load_config on project.yaml
CallLoadConfig ==
    /\ loaded' = LoadConfig(config_file)
    /\ valid' = "none"
    /\ UNCHANGED <<command_history, history_file, last_saved, restored,
                   config_file>>
    /\ UNCHANGED <<svars, evars, pvars>>

\* a call of validate_config on the dictionary that load_config returned
CallValidateConfig ==
    /\ loaded.outcome = "returned"
    /\ valid' = ValidateConfig(loaded)
    /\ UNCHANGED <<command_history, history_file, last_saved, restored,
                   config_file, loaded>>
    /\ UNCHANGED <<svars, evars, pvars>>

\* ------------------------------------------------------ source discovery
\* a path is the sequence of its components below the directory the
\* engine was made in; a file name carries its extension
ProjectPath == <<>>

\* self.build_dir
BuildDir == <<"obj">>

\* the source files of the project tree, in the order glob lists them
Tree == << <<"src", "a.c">>, <<"src", "sub", "b.c">>,
           <<"lib", "c.cpp">>, <<"ext", "d.c">> >>

\* the directories below the project directory that hold a project.yaml
WithDescriptor == { <<"ext">> }

\* the extensions _find_source_files looks for, in its order
Extensions == <<".c", ".cpp", ".cc", ".cxx", ".s", ".asm">>

\* the extension of a file name of the tree
Extension(name) == IF name = "c.cpp" THEN ".cpp" ELSE ".c"

\* the entries a project.yaml gives in project_dirs: a directory, the
\* same directory written another way, a directory below it, another
\* one, one that holds a project.yaml and one that does not exist
DirEntries == { <<"src">>, <<".", "src">>, <<"src", "sub">>, <<"lib">>,
                <<"ext">>, <<"gone">> }

DirLists == {<<>>} \cup UNION {[1..n -> DirEntries] : n \in 1..MaxDirs}

\* the ignore lists of a project.yaml
IgnoreLists == {<<>>, <<"b">>}

\* name.startswith(pattern), for the names of the tree and the patterns
\* of IgnoreLists
StartsWith(name, pattern) == <<name, pattern>> \in {<<"b.c", "b">>}

\* os.path.normpath(os.path.join(self.project_path, d))
NormPath(d) == SelectSeq(ProjectPath \o d, LAMBDA c : c # ".")

\* file f is in directory d or below it
Under(f, d) == Len(f) > Len(d) /\ SubSeq(f, 1, Len(d)) = d

\* os.path.exists(d) for a directory
DirExists(d) == d = ProjectPath \/ \E i \in DOMAIN Tree : Under(Tree[i], d)

\* glob.glob(os.path.join(d, "**/*" + ext), recursive=True)
Glob(d, ext) ==
    SelectSeq(Tree, LAMBDA f : Under(f, d) /\ Extension(f[Len(f)]) = ext)

\* the files of one project directory, extension after extension
RECURSIVE GlobAll(_, _)
GlobAll(d, exts) ==
    IF exts = <<>> THEN <<>>
    ELSE Glob(d, Head(exts)) \o GlobAll(d, Tail(exts))

\* the loop over the project directories: one that does not exist, or
\* that is not the project directory and holds a project.yaml, is
\* skipped; the files of the others are appended to the list
RECURSIVE Collect(_)
Collect(ds) ==
    IF ds = <<>> THEN <<>>
    ELSE LET d == Head(ds)
             skipped == \/ ~DirExists(d)
                        \/ d \in WithDescriptor /\ d # ProjectPath
         IN (IF skipped THEN <<>> ELSE GlobAll(d, Extensions))
                \o Collect(Tail(ds))

\* _find_source_files
FindSourceFiles(dirs, ignore) ==
    LET ds == IF dirs = <<>> THEN << <<".">> >> ELSE dirs
        nd == [i \in DOMAIN ds |-> NormPath(ds[i])]
    IN SelectSeq(Collect(nd),
                 LAMBDA f : \A i \in DOMAIN ignore :
                                ~StartsWith(f[Len(f)], ignore[i]))

\* os.path.relpath(source_file, self.project_path)
RelPath(f, base) == SubSeq(f, Len(base) + 1, Len(f))

\* _get_object_file_path: the suffix ".o" is the last component
GetObjectFilePath(source_file) ==
    BuildDir \o RelPath(source_file, ProjectPath) \o <<".o">>

\* an engine that has discovered nothing yet, on a project.yaml without
\* project_dirs and ignore entries
NothingDiscovered ==
    /\ project_dirs = <<>>
    /\ ignore_patterns = <<>>
    /\ source_files = <<>>
    /\ compile_tasks = <<>>
    /\ dpc = "idle"

\* a build that is not incremental discovers its sources; it returns
\* False if there is none
FindSources ==
    /\ dpc = "idle"
    /\ source_files' = FindSourceFiles(project_dirs, ignore_patterns)
    /\ dpc' = IF source_files' = <<>> THEN "done" ELSE "found"
    /\ UNCHANGED <<project_dirs, ignore_patterns, compile_tasks>>
    /\ UNCHANGED <<svars, evars, hvars>>

\* every discovered file is to compile, and parallel mode creates one
\* task for each entry of the list
DispatchCompiles ==
    /\ dpc = "found"
    /\ compile_tasks' =
           [i \in DOMAIN source_files |->
               [source_file |-> source_files[i],
                obj_file |-> GetObjectFilePath(source_files[i]),
                state |-> "running"]]
    /\ dpc' = "compile"
    /\ UNCHANGED <<project_dirs, ignore_patterns, source_files>>
    /\ UNCHANGED <<svars, evars, hvars>>

\* the compiler process of task i has written its object file and ended
ObjectFileWritten(i) ==
    /\ dpc = "compile"
    /\ i \in DOMAIN compile_tasks
    /\ compile_tasks[i].state = "running"
    /\ compile_tasks' = [compile_tasks EXCEPT ![i].state = "ok"]
    /\ UNCHANGED <<project_dirs, ignore_patterns, source_files, dpc>>
    /\ UNCHANGED <<svars, evars, hvars>>

\* asyncio.gather returns when every task has ended
CompilesGathered ==
    /\ dpc = "compile"
    /\ \A i \in DOMAIN compile_tasks : compile_tasks[i].state = "ok"
    /\ dpc' = "done"
    /\ UNCHANGED <<project_dirs, ignore_patterns, source_files,
                   compile_tasks>>
    /\ UNCHANGED <<svars, evars, hvars>>

\* the caller has the result of the build
DiscoveryReturn ==
    /\ dpc = "done"
    /\ dpc' = "idle"
    /\ source_files' = <<>>
    /\ compile_tasks' = <<>>
    /\ UNCHANGED <<project_dirs, ignore_patterns>>
    /\ UNCHANGED <<svars, evars, hvars>>

\* a shell session: the history is filled, saved and loaded, and the
\* descriptor is loaded and validated
SessionNext ==
    \/ \E cmd \in Commands : AddToHistory(cmd)
    \/ \E ok \in BOOLEAN : SaveHistory(ok)
    \/ ClearHistory
    \/ LoadHistory
    \/ CallLoadConfig
    \/ CallValidateConfig

EngineNext ==
    \/ Construct
    \/ \E f \in Files, c \in Contents : EditSource(f, c)
    \/ \E fl \in Flags : EditFlags(fl)
    \/ \E f \in Files : RemoveObject(f)
    \/ \E inc \in BOOLEAN, mt \in BOOLEAN : EngineBuildStart(inc, mt, TRUE)
    \/ \E ok \in BOOLEAN : BootstrapEnd(ok)
    \/ \E f \in Files : CompileStart(f)
    \/ \E f \in Files, ok \in BOOLEAN : CompileEnd(f, ok)
    \/ GatherReturn
    \/ \E f \in Files, ok \in BOOLEAN : SequentialCompileEnd(f, ok)
    \/ \E ok \in BOOLEAN : ArtifactEnd(ok)
    \/ EngineBuildReturn

\* builds and cleans of a project with subprojects, bootstrap commands
\* and any cache file, its sources left alone
ProjectNext ==
    \/ Construct
    \/ \E inc \in BOOLEAN, mt \in BOOLEAN, bs \in BOOLEAN :
           EngineBuildStart(inc, mt, bs)
    \/ \E inc \in BOOLEAN, mt \in BOOLEAN : SubprojectsStart(inc, mt)
    \/ \E s \in Subs, ok \in BOOLEAN : SubprojectEnd(s, ok)
    \/ \E ok \in BOOLEAN : BootstrapEnd(ok)
    \/ \E f \in Files : CompileStart(f)
    \/ \E f \in Files, ok \in BOOLEAN : CompileEnd(f, ok)
    \/ GatherReturn
    \/ \E f \in Files, ok \in BOOLEAN : SequentialCompileEnd(f, ok)
    \/ \E ok \in BOOLEAN : ArtifactEnd(ok)
    \/ EngineBuildReturn
    \/ \E fault \in {"none", "rmtree", "remove"} : Clean(fault)
    \/ CleanReturn

\* the scheduler, on every graph, target list and worker count
SchedInit ==
    /\ \E g \in Graphs, ts \in TargetLists, n \in 1..MaxWorkers :
           ManagerConstructed(g, ts, n)
    /\ EngineConstructed(PlainDescriptor, EmptyCache, FALSE)
    /\ OnHost(1)
    /\ NothingDiscovered
    /\ ShellStarted
    /\ ConfigOnDisk(FullConfigFile)

SchedSpec == SchedInit /\ [][SchedNext]_vars

\* the steps of the thread that calls build()
MainStep ==
    \/ BuildStart
    \/ WaitCondRunning
    \/ WaitCondPending
    \/ ConditionWait
    \/ \E t \in Targets : ScanTarget(t)
    \/ ScanEnd
    \/ StopWorkers
    \/ JoinWorkers
    \/ BuildReturn

\* the steps of worker thread w, the end of task.execute() among them
WorkerStep(w) ==
    \/ WorkerLoop(w)
    \/ WorkerGet(w)
    \/ WorkerGetEmpty(w)
    \/ WorkerEmptyRunning(w)
    \/ WorkerCheck(w)
    \/ WorkerDiscardPending(w)
    \/ WorkerAddRunning(w)
    \/ ExecuteStart(w)
    \/ \E ok \in BOOLEAN : ExecuteEnd(w, ok)
    \/ WorkerDiscardRunning(w)
    \/ WorkerRecord(w)

\* the scheduler on graphs with cycles and self-dependencies, called for
\* any one target, with every worker count
CyclicInit ==
    /\ \E g \in CyclicGraphs, t \in Targets, n \in 1..MaxWorkers :
           ManagerConstructed(g, <<t>>, n)
    /\ EngineConstructed(PlainDescriptor, EmptyCache, FALSE)
    /\ OnHost(1)
    /\ NothingDiscovered
    /\ ShellStarted
    /\ ConfigOnDisk(FullConfigFile)

\* every thread that can take a step takes one in the end: the thread of
\* build() and each worker are scheduled by the operating system, the
\* waits on the queue and on the condition end at their timeouts, and
\* every action returns. A step of build() changes mpc or mscan, a step
\* of a worker its wpc
CyclicSpec ==
    /\ CyclicInit
    /\ [][SchedNext]_vars
    /\ WF_<<mpc, mscan>>(MainStep)
    /\ \A w \in Workers : WF_wpc(WorkerStep(w))

\* calls of build() one after the other on one manager, each for one
\* target
RerunNext ==
    \/ SchedNext
    \/ \E t \in Targets : BuildAgain(<<t>>)

\* a manager made with any max_workers argument, for a project of
\* independent targets, and its first call
RerunInit ==
    /\ \E arg \in ConstructorArguments, cpus \in CpuCounts :
           ManagerConstructed(Graph(<<>>, <<>>), <<"A">>,
                              MaxWorkersOf(arg, cpus))
    /\ EngineConstructed(PlainDescriptor, EmptyCache, FALSE)
    /\ OnHost(1)
    /\ NothingDiscovered
    /\ ShellStarted
    /\ ConfigOnDisk(FullConfigFile)

RerunSpec == RerunInit /\ [][RerunNext]_vars

\* the pipeline of one project built before, its object files removed,
\* whatever fingerprints its cache file holds
EngineInit ==
    /\ \E cached \in [Files -> Hashes \cup {None}] :
           EngineConstructed(PlainDescriptor,
                             [form |-> "record", hashes |-> cached,
                              meta |-> FullMeta], TRUE)
    /\ OnHost(1)
    /\ NothingDiscovered
    /\ ManagerConstructed(Graph(<<>>, <<>>), <<"A">>, 1)
    /\ ShellStarted
    /\ ConfigOnDisk(FullConfigFile)

EngineSpec == EngineInit /\ [][EngineNext]_vars

\* the pipeline of a new project on hosts of any number of cores
HostInit ==
    /\ EngineConstructed(PlainDescriptor, EmptyCache, FALSE)
    /\ \E n \in CpuCounts : OnHost(n)
    /\ NothingDiscovered
    /\ ManagerConstructed(Graph(<<>>, <<>>), <<"A">>, 1)
    /\ ShellStarted
    /\ ConfigOnDisk(FullConfigFile)

\* builds of that project, one after the other, its sources left alone
HostNext ==
    \/ \E inc \in BOOLEAN, mt \in BOOLEAN : EngineBuildStart(inc, mt, TRUE)
    \/ \E ok \in BOOLEAN : BootstrapEnd(ok)
    \/ \E f \in Files : CompileStart(f)
    \/ \E f \in Files, ok \in BOOLEAN : CompileEnd(f, ok)
    \/ GatherReturn
    \/ \E f \in Files, ok \in BOOLEAN : SequentialCompileEnd(f, ok)
    \/ \E ok \in BOOLEAN : ArtifactEnd(ok)
    \/ EngineBuildReturn

HostSpec == HostInit /\ [][HostNext]_vars

\* in how many ways a project differs from the plain one without cache
\* file: its subprojects, its bootstrap entry, its sources, its type
\* keys, its cache file
Aspects(d, disk) ==
    LET n(b) == IF b THEN 1 ELSE 0
    IN n(d.subprojects # PlainDescriptor.subprojects)
       + n(d.bootstrap # PlainDescriptor.bootstrap)
       + n(~d.has_sources)
       + n(<<d.project_type, d.type_key>> # <<"executable", None>>)
       + n(disk.form # "absent")

\* the pipeline on the descriptors and cache files that differ from the
\* plain project in up to MaxAspects ways
ProjectInit ==
    /\ \E d \in Descriptors, disk \in DiskCaches :
           /\ Aspects(d, disk) <= MaxAspects
           /\ EngineConstructed(d, disk, FALSE)
    /\ OnHost(1)
    /\ NothingDiscovered
    /\ ManagerConstructed(Graph(<<>>, <<>>), <<"A">>, 1)
    /\ ShellStarted
    /\ ConfigOnDisk(FullConfigFile)

ProjectSpec == ProjectInit /\ [][ProjectNext]_vars

\* a shell session on every project.yaml
SessionInit ==
    /\ ShellStarted
    /\ \E c \in ConfigFiles : ConfigOnDisk(c)
    /\ ManagerConstructed(Graph(<<>>, <<>>), <<"A">>, 1)
    /\ EngineConstructed(PlainDescriptor, EmptyCache, FALSE)
    /\ OnHost(1)
    /\ NothingDiscovered

SessionSpec == SessionInit /\ [][SessionNext]_vars

\* builds, in parallel mode and not incremental, of a project whose
\* project.yaml gives any list of project directories and ignore patterns
DiscoveryInit ==
    /\ project_dirs \in DirLists
    /\ ignore_patterns \in IgnoreLists
    /\ source_files = <<>>
    /\ compile_tasks = <<>>
    /\ dpc = "idle"
    /\ ShellStarted
    /\ ConfigOnDisk(FullConfigFile)
    /\ ManagerConstructed(Graph(<<>>, <<>>), <<"A">>, 1)
    /\ EngineConstructed(PlainDescriptor, EmptyCache, FALSE)
    /\ OnHost(1)

DiscoveryNext ==
    \/ FindSources
    \/ DispatchCompiles
    \/ \E i \in 1..(MaxDirs * Len(Tree)) : ObjectFileWritten(i)
    \/ CompilesGathered
    \/ DiscoveryReturn

DiscoverySpec == DiscoveryInit /\ [][DiscoveryNext]_vars

\* ------------------------------------------------- scheduler properties
\* the run has ended: build() has returned and every worker has left
RunEnded ==
    mpc = "returned" /\ \A w \in Workers : wpc[w] \in {"exit", "none"}

\* the four status sets t is in
Membership(t) ==
    <<t \in pending_tasks, t \in running_tasks,
      t \in completed_tasks, t \in failed_tasks>>

Settled(t) == t \in completed_tasks \/ t \in failed_tasks

\* get_task_error(target): the text str(e) stored by execute() when the
\* action raised, None for a target without task or whose task has not
\* failed
GetTaskError(t) ==
    IF t \notin tasks \/ ~task_failed[t] THEN None ELSE "error"

\* C1: while a worker executes the action of a target, every target in
\* its dependency set has already been moved to completed or failed.
C1_DependenciesSettledBeforeStart ==
    \A w \in Workers :
        wpc[w] = "action" =>
            \A d \in SeqToSet(dependencies[wtarget[w]]) : Settled(d)

\* C2: when the run has ended with a failure recorded before build()
\* returned (so that the result is failure), every target of the run that
\* depends, directly or transitively, on a target whose action failed is
\* in failed and its action was never invoked.
C2_CascadingFailure ==
    (RunEnded /\ result = FALSE) =>
        \A b \in Targets :
            task_failed[b] =>
                \A t \in Dependents(b) \cap tasks :
                    t \in failed_tasks /\ invoked[t] = 0

\* C6: once build() has returned, True means that every target of the
\* dependency closure of the requested targets ran its action with
\* success and is in completed, and a failed action means False.
C6_ResultMeansAllCompleted ==
    mpc = "returned" =>
        /\ result = TRUE =>
               \A t \in Closure(SeqToSet(targets)) :
                   /\ t \in completed_tasks
                   /\ task_completed[t] /\ ~task_failed[t]
        /\ (\E t \in Targets : task_failed[t]) => result = FALSE

\* C7: once build() has returned no worker is executing an action (so
\* none starts or finishes one afterwards).
C7_NoActionAfterReturn ==
    mpc = "returned" => \A w \in Workers : wpc[w] # "action"

\* C8: during a run, whenever no worker is inside a locked section, the
\* four status sets are pairwise disjoint and every created target is in
\* one of them.
C8_ExactlyOneState ==
    (mpc \notin {"idle", "returned"} /\ lock = Free) =>
        /\ pending_tasks \cap running_tasks = {}
        /\ pending_tasks \cap completed_tasks = {}
        /\ pending_tasks \cap failed_tasks = {}
        /\ running_tasks \cap completed_tasks = {}
        /\ running_tasks \cap failed_tasks = {}
        /\ completed_tasks \cap failed_tasks = {}
        /\ tasks \subseteq (pending_tasks \cup running_tasks
                              \cup completed_tasks \cup failed_tasks)

\* C9: a completed or failed target never changes state again, and a
\* running target never returns to pending.
C9_MonotonicTransitions ==
    [][\A t \in Targets :
          /\ Settled(t) => Membership(t)' = Membership(t)
          /\ t \in running_tasks => t \notin pending_tasks']_vars

\* -------------------------------------------------- pipeline properties
\* C3: an incremental build that follows a successful incremental build,
\* with no source, flag or object file touched in between, makes no
\* compile invocation and, unless the linker or archiver itself fails,
\* returns success.
C3_IdempotentRebuild ==
    follows.unchanged_incremental =>
        /\ \A f \in Files : ctask[f] = "none"
        /\ (epc = "done" /\ artifact # "failed") => eresult = TRUE

\* C4: every change check returns true exactly when the content of the
\* file differs from its content at the previous check (a file never
\* checked and without stored fingerprint counts as changed).
C4_ChangedExactlyOnce ==
    \A f \in Files :
        last_check[f] # <<>> => last_check[f][1] = last_check[f][2]

\* C5: an incremental build whose compiler flags differ from those of the
\* incremental build before it compiles every discovered source file.
C5_FlagChangeRebuildsAll ==
    (epc # "idle" /\ follows.flags_changed) =>
        SeqToSet(files_to_compile) = Files

\* C10: once the link or archive invocation of a build has started, no
\* compile invocation of that build is waiting to start or in flight.
C10_ArtifactAfterAllCompiles ==
    artifact # "none" =>
        \A f \in Files : ctask[f] \notin {"created", "running"}

\* C10 happens: the link or archive invocation runs after both files were
\* compiled by parallel invocations of the same build.
C10_Witness ==
    /\ artifact = "running"
    /\ multi_threaded
    /\ \A f \in Files : ctask[f] = "ok"

\* ------------------------------------------ scheduler properties, second
\* C14: when build() has returned from a run in which no action has
\* failed, the completed set is the dependency closure of the requested
\* targets and the failed set is empty, whatever the worker count and
\* the scheduling order.
C14_DeterministicOutcome ==
    (mpc = "returned" /\ \A t \in Targets : ~task_failed[t]) =>
        /\ completed_tasks = Closure(SeqToSet(targets))
        /\ failed_tasks = {}

\* C18: a fault raised by a target's action stays inside the worker: the
\* error text is recorded on the task, and once the run has ended the
\* target is in failed, the worker that ran it has left its loop in the
\* normal way, and the result of the run is failure.
C18_FaultContained ==
    \A t \in Targets :
        task_failed[t] =>
            /\ GetTaskError(t) # None
            /\ RunEnded => (t \in failed_tasks /\ result = FALSE)

\* C19: once the run has ended, every target in failed is either failed
\* by cascade (its action never started and get_task_error gives None)
\* or ran and failed (its action started and get_task_error gives the
\* recorded error), never a mixture of the two.
C19_FailedKindsDistinct ==
    RunEnded =>
        \A t \in failed_tasks :
            \/ ~task_started[t] /\ GetTaskError(t) = None
            \/ task_started[t] /\ GetTaskError(t) # None

\* ------------------------------------------- pipeline properties, second
\* a build or a clean is in hand or has just returned
InCall == epc \notin {"idle", "cleaned"}

\* C11: a build of a project whose source discovery finds no source file
\* makes no link or archive invocation, and returns failure.
C11_NoSourcesFailsFast ==
    (InCall /\ SourceFiles = <<>>) =>
        /\ artifact = "none"
        /\ tool = "none"
        /\ epc = "done" => eresult = FALSE

\* C11 happens: a build has gone through its subprojects and bootstrap
\* commands, found no source file and returned.
C11_Witness ==
    /\ epc = "done"
    /\ SourceFiles = <<>>
    /\ failure = "no_sources"
    /\ subproject_engines # {}
    /\ \A s \in subproject_engines : sub_state[s] = "ok"

\* C12: when a directory declared in the subprojects list does not
\* exist, a build of the parent makes no compile invocation and returns
\* failure.
C12_MissingSubprojectAborts ==
    (InCall /\ \E s \in Subs : subprojects[s] = "missing") =>
        /\ \A f \in Files : ctask[f] = "none"
        /\ epc = "done" => eresult = FALSE

\* C13: whatever the cache file held when the engine was made, no build
\* fails because of the cache (an exception raised on reading or
\* stamping self.build_cache), and after a build that succeeded the
\* cache file holds a well-formed cache record.
C13_CacheLoadNeverFails ==
    /\ failure # "cache"
    /\ (epc = "done" /\ eresult = TRUE) => disk_form = "record"

\* C15: when a build returns, with success or with failure, it has saved
\* the cache to disk.
C15_CacheAlwaysPersisted ==
    epc = "done" => saved

\* C16: in a build with subproject building enabled, when the parent has
\* made a compile invocation the build of every declared subproject has
\* finished, and when a subproject build has failed the parent makes no
\* compile, link or archive invocation and returns failure.
C16_SubprojectsBeforeParent ==
    (InCall /\ build_subprojects) =>
        /\ (\E f \in Files : ctask[f] # "none") =>
               \A s \in Declared(subprojects) :
                   sub_state[s] \in {"ok", "failed"}
        /\ (\E s \in Subs : sub_state[s] = "failed") =>
               /\ \A f \in Files : ctask[f] = "none"
               /\ artifact = "none"
               /\ epc = "done" => eresult = FALSE

C20_ArtifactFollowsProjectType ==
    artifact # "none" =>
        tool = IF project_type = "library" THEN "ar" ELSE "ld"

\* ------------------------------------------- pipeline properties, third
\* C21: in a build of a project that declares a bootstrap command, no
\* compile invocation starts before the declared command has been run by
\* that build and has finished successfully; and a build that returns
\* because a bootstrap command failed returns failure and has made no
\* compile invocation.
C21_BootstrapBeforeCompile ==
    /\ (/\ InCall
        /\ bootstrap.command # ""
        /\ \E f \in Files : ctask[f] \in {"running", "ok", "failed"}) =>
           \E i \in DOMAIN ran : ran[i] = bootstrap.command
    /\ (epc = "done" /\ failure = "bootstrap") =>
           /\ eresult = FALSE
           /\ \A f \in Files : ctask[f] = "none"

\* C25: a file whose latest compile invocation on this engine failed is
\* among the files the next build compiles, and no build returns success
\* while the latest compile invocation of some file has failed.
C25_FailedCompileRetried ==
    /\ epc \in {"compile", "artifact"} =>
           \A f \in Files :
               compile_failed[f] => f \in SeqToSet(files_to_compile)
    /\ (epc = "done" /\ eresult = TRUE) =>
           \A f \in Files : ~compile_failed[f]

\* C30: when a build in parallel mode returns because a compile
\* invocation failed, every compile invocation it dispatched has run to
\* its end, no link or archive invocation was made, and the result is
\* failure.
C30_SiblingsFinishAfterFailure ==
    (epc = "done" /\ multi_threaded /\ failure = "compile") =>
        /\ \A i \in DOMAIN files_to_compile :
               ctask[files_to_compile[i]] \in {"ok", "failed"}
        /\ artifact = "none"
        /\ tool = "none"
        /\ eresult = FALSE

\* C30 happens: a build in parallel mode has returned failure after one
\* compile invocation failed and another one, dispatched with it, ended
\* well.
C30_Witness ==
    /\ epc = "done"
    /\ multi_threaded
    /\ failure = "compile"
    /\ \E f, g \in Files : ctask[f] = "failed" /\ ctask[g] = "ok"

\* ----------------------------------------- scheduler properties, third
\* C24: within one scheduling run the action of each target is invoked
\* at most once.
C24_ActionInvokedOnce ==
    \A t \in Targets : invoked[t] <= 1

\* the four status sets
StatusSets ==
    <<pending_tasks, running_tasks, completed_tasks, failed_tasks>>

\* C27: during a run, a step that changes one of the status sets is
\* taken by a thread that holds the lock, and a worker that decides
\* from the status sets whether to process the target it has taken
\* holds the lock while it decides.
C27_AccessUnderLock ==
    [][/\ (mpc # "idle" /\ StatusSets' # StatusSets) =>
              \E w \in Workers :
                  /\ wpc'[w] # wpc[w]
                  /\ lock = w \/ lock' = w
       /\ \A w \in Workers :
              (wpc[w] = "check" /\ wpc'[w] # "check") => lock = w]_vars

\* C28: once the stop flag is set no worker starts the action of a
\* target, and a worker whose action is executing stays with it until
\* the action ends and its state is recorded.
C28_NoStartAfterStop ==
    [][\A w \in Workers :
          /\ (mpc # "idle" /\ ~running /\ wpc[w] # "action") =>
                 wpc'[w] # "action"
          /\ wpc[w] = "action" => wpc'[w] \in {"action", "lock_end"}
          /\ wpc[w] = "lock_end" => wpc'[w] \in {"lock_end", "record"}]_vars

\* C26: the number of targets in the running state and the number of
\* actions that execute at the same time are at most max_workers, and
\* max_workers is at least 1 whatever argument the constructor was given.
C26_BoundedWorkers ==
    /\ max_workers >= 1
    /\ Cardinality(running_tasks) <= max_workers
    /\ Cardinality({w \in Workers : wpc[w] = "action"}) <= max_workers

\* C29: when a later call of build() on the same manager has returned,
\* the status sets hold only targets of that call: its requested targets
\* and their dependencies.
C29_LaterRunIsolated ==
    (calls >= 2 /\ mpc = "returned") =>
        (pending_tasks \cup running_tasks \cup completed_tasks
            \cup failed_tasks) \subseteq Closure(SeqToSet(targets))

\* ------------------------------------------ history and descriptor
\* C22: when load_history has filled an empty history from the file that
\* save_history wrote, the history is the sequence of commands that was
\* saved, in the same order.
C22_HistoryRoundTrip ==
    restored => command_history = last_saved

\* C23: load_config never raises: it returns the empty dictionary when
\* there is no file, when the file cannot be read or parsed and when the
\* document is not a mapping, and the document with its defaults when
\* only mandatory fields are missing; validate_config fails on a
\* dictionary that lacks a mandatory field.
C23_ConfigErrorsReported ==
    /\ loaded.outcome # "raised"
    /\ loaded.outcome = "returned" =>
           loaded.keys = IF config_file.form = "mapping"
                         THEN config_file.fields \cup DefaultedFields
                         ELSE {}
    /\ (valid # "none" /\ ~(MANDATORY_FIELDS \subseteq loaded.keys)) =>
           valid = "invalid"

\* ------------------------------------------- pipeline properties, fourth
\* the compile invocations that have started and have not ended
InFlight == {f \in Files : ctask[f] = "running"}

\* C31: in sequential mode at most one compile invocation is in flight,
\* and once a compile invocation has failed the build has returned
\* failure: no other compile invocation is in flight, the files after
\* the failed one have not been compiled, and no link or archive
\* invocation has been made.
C31_SequentialStopsAtFailure ==
    (InCall /\ ~multi_threaded) =>
        /\ Cardinality(InFlight) <= 1
        /\ \A f \in Files :
               ctask[f] = "failed" =>
                   /\ InFlight = {}
                   /\ \A g \in SeqToSet(After(files_to_compile, f)) :
                          ctask[g] = "none"
                   /\ artifact = "none"
                   /\ tool = "none"
                   /\ epc = "done"
                   /\ eresult = FALSE

\* C31 happens: a sequential build of two stale files has returned after
\* the compile invocation of the first one failed.
C31_Witness ==
    /\ epc = "done"
    /\ ~multi_threaded
    /\ Len(files_to_compile) = 2
    /\ ctask[files_to_compile[1]] = "failed"
    /\ ctask[files_to_compile[2]] = "none"
    /\ eresult = FALSE

\* the build in hand has looked for its stale files and gone on
Scanned ==
    \/ epc \in {"compile", "artifact"}
    \/ epc = "done" /\ failure \in {"compile", "object", "artifact", "none"}

DeclaredCommands ==
    IF bootstrap.command = "" THEN <<>> ELSE <<bootstrap.command>>

\* C36: the shell commands a build runs as bootstrap are the declared
\* ones: at any moment a beginning of the declared commands, and all of
\* them, each once, when the build has gone on to its sources; a project
\* that declares none has none run.
C36_BootstrapAsDeclared ==
    /\ InCall =>
           /\ Len(ran) <= Len(DeclaredCommands)
           /\ \A i \in DOMAIN ran : ran[i] = DeclaredCommands[i]
    /\ Scanned => ran = DeclaredCommands

\* the cache record the engine holds in memory
MemoryCache ==
    [form |-> cache_form, hashes |-> file_hashes, meta |-> cache_meta]

\* C40: when a build that reached the artifact step has returned, the
\* cache file holds the cache record the engine has in memory, with the
\* last_build_time and output_file of that build.
C40_CacheFileIsMemoryCache ==
    (epc = "done" /\ saved) => DiskCache = MemoryCache

\* C34: a link or archive invocation is made only when the object file
\* of every discovered source file exists, and a build that has come
\* through compilation with an object file missing has returned failure
\* without link or archive invocation.
C34_ArtifactNeedsEveryObject ==
    /\ artifact # "none" =>
           \A f \in SeqToSet(SourceFiles) : obj_exists[f]
    /\ (/\ epc = "done"
        /\ Scanned
        /\ \E f \in SeqToSet(SourceFiles) : ~obj_exists[f]) =>
           /\ eresult = FALSE
           /\ artifact = "none"
           /\ tool = "none"

\* C34 happens: every compile invocation of a build returned 0, one of
\* them left no object file, and the build has returned at the check.
C34_Witness ==
    /\ epc = "done"
    /\ failure = "object"
    /\ files_to_compile # <<>>
    /\ \A f \in SeqToSet(files_to_compile) : ctask[f] = "ok"
    /\ \E f \in SeqToSet(SourceFiles) : ~obj_exists[f]

\* C32: in parallel mode the number of compile invocations in flight is
\* at most self.jobs, the number of cores of the host.
C32_ParallelWithinJobs ==
    (InCall /\ multi_threaded) => Cardinality(InFlight) <= jobs

\* C35: in a build with subproject building enabled that has gone on to
\* the parent's own bootstrap commands and sources, every engine of the
\* subproject tree, at every depth, has been built; and once the build
\* of a subproject has ended, the subprojects it declares have been built.
C35_WholeTreeBuilt ==
    (InCall /\ build_subprojects) =>
        /\ (epc # "subprojects" /\ failure # "subproject") =>
               \A e \in EngineTree : sub_state[e] = "ok"
        /\ \A s \in subproject_engines :
               (sub_state[s] \in {"ok", "failed"} /\ Inner(s) \in EngineTree) =>
                   sub_state[Inner(s)] \in {"ok", "failed"}

C39_OneWriterPerObject ==
    /\ \A i, j \in DOMAIN source_files :
           i # j => source_files[i] # source_files[j]
    /\ \A i, j \in DOMAIN Tree :
           i # j => GetObjectFilePath(Tree[i]) # GetObjectFilePath(Tree[j])
    /\ \A i, j \in DOMAIN compile_tasks :
           i # j => compile_tasks[i].obj_file # compile_tasks[j].obj_file

====
